---- MODULE Spec2Model ----
(***************************************************************************)
(* Verification model of the Equality (proof-of-equality) consensus engine *)
(* of go-secret: the snapshot tables, the block producer                   *)
(* (Prepare / FinalizeAndAssemble / Seal) and the header verifier          *)
(* (verifyHeader / verifyCascadingFields / verifySeal).                    *)
(*                                                                         *)
(* Abstractions:                                                           *)
(*  - a Merkle trie hash is modelled by the contents it commits to (the    *)
(*    hash is canonical in the contents); the all-zero hash of a table     *)
(*    that was never materialised is kept distinct from the hash of a      *)
(*    materialised empty trie;                                             *)
(*  - addresses are small integers, ordered as their bytes are;            *)
(*  - uint64 arithmetic is arithmetic modulo WordMod;                      *)
(*  - keccak and math/rand are deterministic stand-in functions.           *)
(***************************************************************************)
EXTENDS Integers, Sequences, FiniteSets, TLC

\* ------------------------------------------------------------------ bounds
NAddr == 3
MaxBlocks == 3
MaxVerifyBlocks == 2
MaxTime == 3
MaxTxs == 2
MaxValidators == 3
MaxGenesisTimestamp == 1
MaxPeriod == 2
MaxMintEpoch == 2
MaxCount == 4
MaxExtraMints == 1
MaxCalls == 4
MaxClock == 4
MaxRewardEntries == 2
MaxRewardNumber == 3
MaxFinalizeBlocks == 3
MaxFinalizeTxs == 3
MaxGenesisValidators == 2
MaxSecurity == 2
MaxNumber == 2
MaxSeed == 3

MaxHeaders == 3

AddressLength == 1

HashLength == 2

MaxChunk == 3

MaxCodecList == 2

MaxStoredValidators == 2

MaxCommits == 2

MaxSets == 2

MaxEpoch == 3

MaxEpochBlocks == 7

MaxElectAddr == 5

MaxElectValidators == 3

MaxMinted == 4

MaxSnapshotOps == 3

MaxLoads == 1
MaxAuthorize == 2
MaxEnough == 3
MaxSenateMinted == 2
MaxSenateTxs == 3
MaxSlots == 4

MaxReceiveBlocks == 3

MaxReceiveTxs == 2
WordMod == 64
SeedMod == 3

Addr == 1..NAddr
ZeroAddr == 0
Times == 0..MaxTime

\* ------------------------------------------------------- small helpers
EmptyFcn == [x \in {} |-> 0]

Range(s) == {s[i] : i \in DOMAIN s}

Min(a, b) == IF a < b THEN a ELSE b

FcnPut(f, k, v) == [x \in (DOMAIN f) \cup {k} |-> IF x = k THEN v ELSE f[x]]

FcnDel(f, k) == [x \in (DOMAIN f) \ {k} |-> f[x]]

\* uint64 subtraction (wraps around)
USub(a, b) == (a - b + WordMod) % WordMod

\* ascending list of a finite set of integers (trie iteration order of keys)
RECURSIVE SortedSeq(_)
SortedSeq(S) ==
    IF S = {} THEN <<>>
    ELSE LET m == CHOOSE x \in S : \A y \in S : x <= y
         IN <<m>> \o SortedSeq(S \ {m})

\* ------------------------------------------------ chain configuration
\* params.EqualityConfig of the modelled chain (e.config).
Config ==
    [Period |-> 1, Epoch |-> 2, MaxValidatorsCount |-> 1,
     MinCandidateBalance |-> 2, GenesisTimestamp |-> 0,
     Validators |-> <<1, 2>>, Pool |-> ZeroAddr,
     Rewards |-> <<[Number |-> 1, Reward |-> 10]>>]

\* --------------------------------------------------------------- hashes
\* common.Hash of a table: z = the all-zero hash, otherwise the contents.
ZeroHash == [z |-> TRUE, c |-> EmptyFcn]

HashOf(contents) == [z |-> FALSE, c |-> contents]

\* Root{} of newSnapshot / of a zero-valued HeaderExtra.
ZeroRoot ==
    [EpochHash |-> ZeroHash, CandidateHash |-> ZeroHash,
     MintCntHash |-> ZeroHash, ConfigHash |-> ZeroHash]

Tables == {"epoch", "candidate", "mintCnt", "config"}

RootField(root, t) ==
    CASE t = "epoch" -> root.EpochHash
      [] t = "candidate" -> root.CandidateHash
      [] t = "mintCnt" -> root.MintCntHash
      [] t = "config" -> root.ConfigHash

\* ------------------------------------------------------------------ RLP
\* rlp.EncodeToBytes / rlp.DecodeBytes.  An item is a byte string
\* [k |-> "s", b |-> bytes] or a list [k |-> "l", v |-> items]; bytes are
\* sequences of 0..255.
Str(b) == [k |-> "s", b |-> b]

List(v) == [k |-> "l", v |-> v]

\* big-endian bytes of n without leading zeros (none for 0)
RECURSIVE BigEndian(_)
BigEndian(n) == IF n = 0 THEN <<>> ELSE Append(BigEndian(n \div 256), n % 256)

RECURSIVE FromBigEndian(_)
FromBigEndian(b) ==
    IF b = <<>> THEN 0
    ELSE FromBigEndian(SubSeq(b, 1, Len(b) - 1)) * 256 + b[Len(b)]

\* the head of a string (offset 128) or of a list (offset 192) of len bytes
rlpHead(len, offset) ==
    IF len <= 55 THEN <<offset + len>>
    ELSE <<offset + 55 + Len(BigEndian(len))>> \o BigEndian(len)

RECURSIVE rlpEncode(_)
RECURSIVE rlpEncodeAll(_)
rlpEncodeAll(items) ==
    IF items = <<>> THEN <<>>
    ELSE rlpEncode(Head(items)) \o rlpEncodeAll(Tail(items))

rlpEncode(item) ==
    IF item.k = "s"
    THEN IF Len(item.b) = 1 /\ item.b[1] < 128 THEN item.b
         ELSE rlpHead(Len(item.b), 128) \o item.b
    ELSE LET payload(p) == rlpHead(Len(p), 192) \o p
         IN payload(rlpEncodeAll(item.v))

NoItem == [err |-> TRUE, item |-> Str(<<>>), rest |-> <<>>]

\* the size an item's head announces: [err, head (bytes of the head), len]
rlpSize(b, offset) ==
    LET short == [err |-> FALSE, head |-> 1, len |-> b[1] - offset]
        lenOfLen == b[1] - offset - 55
        long(be) ==
            IF be = <<>> \/ be[1] = 0 \/ FromBigEndian(be) <= 55
            THEN [err |-> TRUE, head |-> 0, len |-> 0]
            ELSE [err |-> FALSE, head |-> 1 + lenOfLen, len |-> FromBigEndian(be)]
    IN IF b[1] - offset <= 55 THEN short
       ELSE IF Len(b) < 1 + lenOfLen THEN [err |-> TRUE, head |-> 0, len |-> 0]
       ELSE long(SubSeq(b, 2, 1 + lenOfLen))

\* the first item of b and the bytes after it
RECURSIVE rlpSplit(_)
RECURSIVE rlpSplitAll(_)
rlpSplitAll(b) ==
    IF b = <<>> THEN [err |-> FALSE, items |-> <<>>]
    ELSE LET rest(first, more) ==
                 [err |-> more.err, items |-> <<first.item>> \o more.items]
             next(first) ==
                 IF first.err THEN [err |-> TRUE, items |-> <<>>]
                 ELSE rest(first, rlpSplitAll(first.rest))
         IN next(rlpSplit(b))

rlpSplit(b) ==
    LET string(size) ==
            IF size.err \/ Len(b) < size.head + size.len THEN NoItem
            ELSE IF size.len = 1 /\ b[size.head + 1] < 128 THEN NoItem
            ELSE [err |-> FALSE,
                  item |-> Str(SubSeq(b, size.head + 1, size.head + size.len)),
                  rest |-> SubSeq(b, size.head + size.len + 1, Len(b))]
        listed(size, all) ==
            IF all.err THEN NoItem
            ELSE [err |-> FALSE, item |-> List(all.items),
                  rest |-> SubSeq(b, size.head + size.len + 1, Len(b))]
        list(size) ==
            IF size.err \/ Len(b) < size.head + size.len THEN NoItem
            ELSE listed(size, rlpSplitAll(SubSeq(b, size.head + 1,
                                                 size.head + size.len)))
    IN IF b = <<>> THEN NoItem
       ELSE IF b[1] < 128 THEN [err |-> FALSE, item |-> Str(<<b[1]>>), rest |-> Tail(b)]
       ELSE IF b[1] < 192 THEN string(rlpSize(b, 128))
       ELSE list(rlpSize(b, 192))

\* rlp.DecodeBytes: one item and nothing after it
rlpDecode(b) ==
    LET whole(first) ==
            IF first.err \/ first.rest # <<>> THEN [err |-> TRUE, item |-> Str(<<>>)]
            ELSE [err |-> FALSE, item |-> first.item]
    IN whole(rlpSplit(b))

\* a common.Address: AddressLength bytes, big-endian
RECURSIVE Padded(_, _)
Padded(b, len) == IF Len(b) >= len THEN b ELSE Padded(<<0>> \o b, len)

AddressItem(a) == Str(Padded(BigEndian(a), AddressLength))

\* decoding into a common.Address: a string of exactly AddressLength bytes
IsAddressItem(item) == item.k = "s" /\ Len(item.b) = AddressLength

\* decoding into a uint64: at most 8 bytes, no leading zero
IsUintItem(item) ==
    item.k = "s" /\ Len(item.b) <= 8 /\ (item.b = <<>> \/ item.b[1] # 0)

\* decoding into a []common.Address
IsAddressList(item) ==
    item.k = "l" /\ \A i \in DOMAIN item.v : IsAddressItem(item.v[i])

AddressListItem(addresses) ==
    List([i \in DOMAIN addresses |-> AddressItem(addresses[i])])

AddressesOf(item) == [i \in DOMAIN item.v |-> FromBigEndian(item.v[i].b)]

\* ------------------------------------------------------------- Snapshot
\* loadSnapshot / newSnapshot: pinned root, no trie materialised.
loadSnapshot(root) ==
    [root |-> root,
     mat |-> [t \in Tables |-> FALSE],
     tab |-> [t \in Tables |-> EmptyFcn]]

newSnapshot == loadSnapshot(ZeroRoot)

\* ensureTrie: materialise table t from the pinned root on first access.
ensureTrie(snap, t) ==
    IF snap.mat[t] THEN snap
    ELSE [snap EXCEPT !.mat[t] = TRUE, !.tab[t] = RootField(snap.root, t).c]

\* a variant that starts from Root{} instead of the pinned root
SnapRootFromZero(snap) ==
    [EpochHash |-> IF snap.mat["epoch"] THEN HashOf(snap.tab["epoch"]) ELSE ZeroHash,
     CandidateHash |-> IF snap.mat["candidate"] THEN HashOf(snap.tab["candidate"])
                       ELSE ZeroHash,
     MintCntHash |-> IF snap.mat["mintCnt"] THEN HashOf(snap.tab["mintCnt"])
                     ELSE ZeroHash,
     ConfigHash |-> IF snap.mat["config"] THEN HashOf(snap.tab["config"])
                    ELSE ZeroHash]

\* Snapshot.Root: pinned root, overwritten by every materialised trie.
SnapRoot(snap) ==
    [EpochHash |-> IF snap.mat["epoch"] THEN HashOf(snap.tab["epoch"])
                   ELSE snap.root.EpochHash,
     CandidateHash |-> IF snap.mat["candidate"] THEN HashOf(snap.tab["candidate"])
                       ELSE snap.root.CandidateHash,
     MintCntHash |-> IF snap.mat["mintCnt"] THEN HashOf(snap.tab["mintCnt"])
                     ELSE snap.root.MintCntHash,
     ConfigHash |-> IF snap.mat["config"] THEN HashOf(snap.tab["config"])
                    ELSE snap.root.ConfigHash]

\* Snapshot.Commit: the trie roots written to the database, i.e. those that
\* differ from the pinned root.
CommitWrites(snap, root) ==
    {<<t, RootField(root, t)>> : t \in {u \in Tables :
                                   RootField(snap.root, u) # RootField(root, u)}}

\* GetValidators: the bytes under "validator" in the epoch trie, decoded as
\* a []common.Address; err when there are none (rlp.DecodeBytes of nil) or
\* when they are not the encoding of an address list.
GetValidators(snap) ==
    LET s == ensureTrie(snap, "epoch")
        failed == [snap |-> s, err |-> TRUE, validators |-> <<>>]
        decoded(d) ==
            IF d.err \/ ~IsAddressList(d.item) THEN failed
            ELSE [snap |-> s, err |-> FALSE, validators |-> AddressesOf(d.item)]
    IN IF s.tab["epoch"] = EmptyFcn THEN failed
       ELSE decoded(rlpDecode(s.tab["epoch"][1]))

\* a variant that keeps the entry the trie already has
SetValidatorsOnce(snap, validators) ==
    LET s == ensureTrie(snap, "epoch")
    IN IF s.tab["epoch"] = EmptyFcn
       THEN [s EXCEPT !.tab["epoch"] = <<rlpEncode(AddressListItem(validators))>>]
       ELSE s

\* SetValidators: the RLP bytes of the list under "validator"
SetValidators(snap, validators) ==
    LET s == ensureTrie(snap, "epoch")
    IN [s EXCEPT !.tab["epoch"] = <<rlpEncode(AddressListItem(validators))>>]

SetChainConfig(snap, config) ==
    LET s == ensureTrie(snap, "config")
    IN [s EXCEPT !.tab["config"] = <<config>>]

\* MintBlock: mintCnt[(epoch, number)] := validator.
MintBlockPerEpoch(snap, epoch, number, validator) ==
    LET s == ensureTrie(snap, "mintCnt")
    IN [s EXCEPT !.tab["mintCnt"] = FcnPut(@, <<epoch, 0>>, validator)]

MintBlock(snap, epoch, number, validator) ==
    LET s == ensureTrie(snap, "mintCnt")
    IN [s EXCEPT !.tab["mintCnt"] = FcnPut(@, <<epoch, number>>, validator)]

\* a variant that writes the record whether or not one exists
BecomeCandidateOverwrite(snap, candidateAddr, blockNumber, security) ==
    LET s == ensureTrie(snap, "candidate")
    IN [snap |-> [s EXCEPT !.tab["candidate"] =
                    FcnPut(@, candidateAddr,
                           [Security |-> security, BlockNumber |-> blockNumber])],
        exists |-> candidateAddr \in DOMAIN s.tab["candidate"]]

\* BecomeCandidate: no change when the record exists.
BecomeCandidate(snap, candidateAddr, blockNumber, security) ==
    LET s == ensureTrie(snap, "candidate")
    IN IF candidateAddr \in DOMAIN s.tab["candidate"]
       THEN [snap |-> s, exists |-> TRUE]
       ELSE [snap |-> [s EXCEPT !.tab["candidate"] =
                         FcnPut(@, candidateAddr,
                                [Security |-> security, BlockNumber |-> blockNumber])],
             exists |-> FALSE]

\* a variant that returns the Security and keeps the record
CancelCandidateKeep(snap, candidateAddr) ==
    LET s == ensureTrie(snap, "candidate")
    IN IF candidateAddr \notin DOMAIN s.tab["candidate"]
       THEN [snap |-> s, err |-> TRUE, security |-> 0]
       ELSE [snap |-> s, err |-> FALSE,
             security |-> s.tab["candidate"][candidateAddr].Security]

\* CancelCandidate: decoding the absent record fails; otherwise the record is
\* deleted and its Security returned.
CancelCandidate(snap, candidateAddr) ==
    LET s == ensureTrie(snap, "candidate")
    IN IF candidateAddr \notin DOMAIN s.tab["candidate"]
       THEN [snap |-> s, err |-> TRUE, security |-> 0]
       ELSE [snap |-> [s EXCEPT !.tab["candidate"] = FcnDel(@, candidateAddr)],
             err |-> FALSE,
             security |-> s.tab["candidate"][candidateAddr].Security]

\* common.Address.String(): the checksummed hex string. Its casing makes the
\* string order differ from the byte order of the addresses; modelled as a
\* rank that swaps the first two addresses.
AddrString(a) == IF a = 1 THEN 2 ELSE IF a = 2 THEN 1 ELSE a

\* SortableAddresses.Less
Less(pi, pj) ==
    IF pi.Weight < pj.Weight THEN FALSE
    ELSE IF pi.Weight > pj.Weight THEN TRUE
    ELSE AddrString(pi.Address) < AddrString(pj.Address)

\* a variant: the order of SortableAddresses itself, without sort.Reverse
ForwardLess(pi, pj) == Less(pi, pj)

\* sort.Reverse(addresses).Less(i, j) = addresses.Less(j, i)
ReverseLess(pi, pj) == Less(pj, pi)

RECURSIVE InsertSorted(_, _)
InsertSorted(sorted, x) ==
    IF sorted = <<>> THEN <<x>>
    ELSE IF ReverseLess(x, Head(sorted)) THEN <<x>> \o sorted
    ELSE <<Head(sorted)>> \o InsertSorted(Tail(sorted), x)

\* the slice as CountMinted built it, in validator-list order
Unsorted(addresses) == addresses

\* sort.Sort(sort.Reverse(addresses))
RECURSIVE SortReverse(_)
SortReverse(addresses) ==
    IF addresses = <<>> THEN <<>>
    ELSE InsertSorted(SortReverse(Tail(addresses)), Head(addresses))

\* order of the 16-byte keys epoch_be8 || number_be8 in the mintCnt trie
KeyLess(k1, k2) == k1[1] < k2[1] \/ (k1[1] = k2[1] /\ k1[2] < k2[2])

RECURSIVE SortedKeys(_)
SortedKeys(S) ==
    IF S = {} THEN <<>>
    ELSE LET m == CHOOSE x \in S : \A y \in S \ {x} : KeyLess(x, y)
         IN <<m>> \o SortedKeys(S \ {m})

RECURSIVE DropBelow(_, _)
DropBelow(keys, epoch) ==
    IF keys = <<>> THEN <<>>
    ELSE IF Head(keys)[1] < epoch THEN DropBelow(Tail(keys), epoch)
    ELSE keys

RECURSIVE TakeWhilePrefix(_, _)
TakeWhilePrefix(keys, epoch) ==
    IF keys = <<>> THEN <<>>
    ELSE IF Head(keys)[1] = epoch
         THEN <<Head(keys)>> \o TakeWhilePrefix(Tail(keys), epoch)
    ELSE <<>>

\* an iterator that seeks to the prefix and runs to the end of the trie
IteratorFrom(mintTab, epoch) == DropBelow(SortedKeys(DOMAIN mintTab), epoch)

\* Trie.PrefixIterator(epoch_be8) on the mintCnt trie: seek to the first key
\* at or after the prefix, then yield keys until one lacks the prefix.
PrefixIterator(mintTab, epoch) ==
    TakeWhilePrefix(DropBelow(SortedKeys(DOMAIN mintTab), epoch), epoch)

\* CountMinted: one {Address, Weight} per entry of the validator list, the
\* weight being the address's number of mint entries under the epoch prefix.
CountMinted(snap, epoch) ==
    LET mapper(mintTab, keys, v) ==
            Cardinality({i \in DOMAIN keys : mintTab[keys[i]] = v})
        addresses(validators, mintTab, keys) ==
            [idx \in DOMAIN validators |->
               [Address |-> validators[idx],
                Weight |-> mapper(mintTab, keys, validators[idx])]]
        count(gv, s) ==
            IF gv.err THEN [snap |-> gv.snap, err |-> TRUE, addresses |-> <<>>]
            ELSE [snap |-> s, err |-> FALSE,
                  addresses |-> SortReverse(
                      addresses(gv.validators, s.tab["mintCnt"],
                                PrefixIterator(s.tab["mintCnt"], epoch)))]
        iterate(gv) == count(gv, ensureTrie(gv.snap, "mintCnt"))
    IN iterate(GetValidators(snap))

\* EnoughCandidates: counts candidates, stopping as soon as n are seen.
EnoughCandidates(snap, n) ==
    LET s == ensureTrie(snap, "candidate")
        c == Cardinality(DOMAIN s.tab["candidate"])
    IN IF n <= 0 THEN [snap |-> snap, count |-> 0, ok |-> TRUE]
       ELSE IF c >= n THEN [snap |-> s, count |-> n, ok |-> TRUE]
       ELSE [snap |-> s, count |-> c, ok |-> FALSE]

\* k-th draw r.Int31n(m) of rand.New(rand.NewSource(seed)): a deterministic
\* stand-in for the generator.
Int31n(seed, k, m) == (seed + k) % m

\* a variant that copies candidates[j] over candidates[i]
Overwrite(s, i, j) == [s EXCEPT ![i] = s[j]]

Swap(s, i, j) == [s EXCEPT ![i] = s[j], ![j] = s[i]]

\* the Fisher-Yates loop, i (1-based position) running down to 2
RECURSIVE Shuffle(_, _, _, _)
Shuffle(candidates, seed, pos, k) ==
    IF pos <= 1 THEN candidates
    ELSE Shuffle(Swap(candidates, pos, Int31n(seed, k, pos) + 1), seed, pos - 1, k + 1)

\* a variant that returns the whole shuffled list
RandCandidatesAll(snap, seed, n) ==
    LET shuffle(s, all) ==
            IF all = <<>> THEN [snap |-> s, candidates |-> <<>>]
            ELSE [snap |-> s, candidates |-> Shuffle(all, seed, Len(all), 0)]
        iterate(s) == shuffle(s, SortedSeq(DOMAIN s.tab["candidate"]))
    IN IF n <= 0 THEN [snap |-> snap, candidates |-> <<>>]
       ELSE iterate(ensureTrie(snap, "candidate"))

\* RandCandidates: candidates in key order, shuffled, truncated to n.
RandCandidates(snap, seed, n) ==
    LET truncate(s, shuffled) ==
            [snap |-> s,
             candidates |-> IF Len(shuffled) > n THEN SubSeq(shuffled, 1, n)
                            ELSE shuffled]
        shuffle(s, all) ==
            IF all = <<>> THEN [snap |-> s, candidates |-> <<>>]
            ELSE truncate(s, Shuffle(all, seed, Len(all), 0))
        iterate(s) == shuffle(s, SortedSeq(DOMAIN s.tab["candidate"]))
    IN IF n <= 0 THEN [snap |-> snap, candidates |-> <<>>]
       ELSE iterate(ensureTrie(snap, "candidate"))

\* ---------------------------------------------------------- HeaderExtra
HeaderExtra(epoch, epochBlock, root) ==
    [Root |-> root, Epoch |-> epoch, EpochBlock |-> epochBlock,
     ChainConfig |-> <<>>,
     CurrentBlockCandidates |-> <<>>,
     CurrentBlockKickOutCandidates |-> <<>>,
     CurrentBlockCancelCandidates |-> <<>>,
     CurrentEpochValidators |-> <<>>]

\* a variant that returns the slice as it is
addressesAll(slice) == slice

\* addressesDistinct: first occurrences, in order.
RECURSIVE addressesDistinct(_)
addressesDistinct(slice) ==
    IF Len(slice) <= 1 THEN slice
    ELSE LET front == addressesDistinct(SubSeq(slice, 1, Len(slice) - 1))
             last == slice[Len(slice)]
         IN IF last \in Range(front) THEN front ELSE Append(front, last)

\* -------------------------------------------------------- Snapshot.apply
RECURSIVE ApplyCandidates(_, _, _, _)
ApplyCandidates(snap, list, number, security) ==
    IF list = <<>> THEN snap
    ELSE ApplyCandidates(BecomeCandidate(snap, Head(list), number, security).snap,
                         Tail(list), number, security)

RECURSIVE ApplyCancels(_, _)
ApplyCancels(r, list) ==
    IF r.err \/ list = <<>> THEN r
    ELSE LET c == CancelCandidate(r.snap, Head(list))
         IN ApplyCancels([snap |-> c.snap, err |-> c.err], Tail(list))

\* apply: candidates, kick-outs, cancels, validators on an epoch block, chain
\* config, mint entry; stops at the first failing CancelCandidate.
apply(snap, config, header, headerExtra) ==
    LET number == header.Number
        security == IF number > 1 THEN config.MinCandidateBalance ELSE 0
        validators(s) ==
            IF number = headerExtra.EpochBlock
            THEN SetValidators(s, headerExtra.CurrentEpochValidators)
            ELSE s
        chainCfg(s) ==
            IF Len(headerExtra.ChainConfig) > 0
            THEN SetChainConfig(s, headerExtra.ChainConfig[Len(headerExtra.ChainConfig)])
            ELSE s
        mint(r) ==
            IF r.err THEN [snap |-> r.snap, err |-> TRUE]
            ELSE [snap |-> MintBlock(chainCfg(validators(r.snap)), headerExtra.Epoch,
                                     number, header.Coinbase),
                  err |-> FALSE]
        cancels(r) == mint(ApplyCancels(r, headerExtra.CurrentBlockCancelCandidates))
        kickOuts(s) ==
            cancels(ApplyCancels([snap |-> s, err |-> FALSE],
                                 headerExtra.CurrentBlockKickOutCandidates))
    IN kickOuts(ApplyCandidates(snap, headerExtra.CurrentBlockCandidates,
                                number, security))

\* ------------------------------------------------------------- headers
NoSigner == 0

\* the genesis header (block 0)
Genesis ==
    [Number |-> 0, Time |-> 0, Coinbase |-> ZeroAddr, Signer |-> NoSigner,
     Epoch |-> 0, EpochBlock |-> 0, Root |-> ZeroRoot]

\* what later blocks read of an accepted header: its number, time, coinbase,
\* seal and the Root / Epoch / EpochBlock of its HeaderExtra
Stored(header) ==
    [Number |-> header.Number, Time |-> header.Time, Coinbase |-> header.Coinbase,
     Signer |-> header.Signer, Epoch |-> header.Extra.Epoch,
     EpochBlock |-> header.Extra.EpochBlock, Root |-> header.Extra.Root]

\* int64(binary.LittleEndian.Uint32(crypto.Keccak512(header.ParentHash))): a
\* deterministic stand-in mixing the fields of the parent header.
ParentSeed(parent) == (parent.Number + parent.Time + parent.Coinbase) % SeedMod

\* chainConfigByHash: the genesis config for the zero hash, otherwise the
\* record stored in the config trie (ErrChainConfigMissing when there is none)
chainConfigByHash(configHash) ==
    IF configHash.z THEN [err |-> FALSE, config |-> Config]
    ELSE IF configHash.c = EmptyFcn THEN [err |-> TRUE, config |-> Config]
    ELSE [err |-> FALSE, config |-> configHash.c[1]]

\* chainConfig(header)
chainConfig(parent) ==
    IF parent.Number = 0 THEN [err |-> FALSE, config |-> Config]
    ELSE chainConfigByHash(parent.Root.ConfigHash)

\* the validator list of lastBlockHeader, as inTurn reads it
TurnValidators(config, lastBlockHeader) ==
    IF lastBlockHeader.Number > 0
    THEN GetValidators(loadSnapshot(lastBlockHeader.Root))
    ELSE [err |-> FALSE, validators |-> config.Validators]

\* variants: the slot index advances every second whatever the Period; the
\* first validator is always in turn; every validator is in turn
inTurnPerSecond(config, lastBlockHeader, nexBlockTime, signer) ==
    LET gv == TurnValidators(config, lastBlockHeader)
        count == Len(gv.validators)
    IN ~gv.err /\ count # 0
       /\ gv.validators[(USub(nexBlockTime, config.GenesisTimestamp) % count) + 1] = signer

inTurnFirst(config, lastBlockHeader, nexBlockTime, signer) ==
    LET gv == TurnValidators(config, lastBlockHeader)
    IN ~gv.err /\ gv.validators # <<>> /\ gv.validators[1] = signer

inTurnMember(config, lastBlockHeader, nexBlockTime, signer) ==
    LET gv == TurnValidators(config, lastBlockHeader)
    IN ~gv.err /\ signer \in Range(gv.validators)

\* inTurn: the validators are the genesis list for a parent that is block 0,
\* the parent snapshot's list otherwise.
inTurn(config, lastBlockHeader, nexBlockTime, signer) ==
    LET idx(count) ==
            (USub(nexBlockTime, config.GenesisTimestamp) \div config.Period) % count
        turn(validators, count) ==
            IF count = 0 THEN FALSE
            ELSE validators[idx(count) + 1] = signer
        signers(gv) ==
            IF gv.err THEN FALSE
            ELSE turn(gv.validators, Len(gv.validators))
    IN signers(TurnValidators(config, lastBlockHeader))

\* --------------------------------------------------- accumulateRewards
\* a variant that stops at the first entry at or above the number and has no
\* reward past the last entry
RECURSIVE RewardAtOrNone(_, _, _)
RewardAtOrNone(rewards, number, blockReward) ==
    IF rewards = <<>> THEN 0
    ELSE IF Head(rewards).Number >= number THEN Head(rewards).Reward
    ELSE RewardAtOrNone(Tail(rewards), number, Head(rewards).Reward)

\* the loop of accumulateRewards: blockReward takes each entry's Reward in
\* turn, stopping after the first entry whose Number >= number
RECURSIVE RewardAt(_, _, _)
RewardAt(rewards, number, blockReward) ==
    IF rewards = <<>> THEN blockReward
    ELSE IF Head(rewards).Number >= number THEN Head(rewards).Reward
    ELSE RewardAt(Tail(rewards), number, Head(rewards).Reward)

AddBalance(bal, a, amount) == [bal EXCEPT ![a] = @ + amount]

SubBalance(bal, a, amount) == [bal EXCEPT ![a] = @ - amount]

\* accumulateRewards: a tenth to the coinbase, the rest to config.Pool
accumulateRewards(config, bal, header) ==
    LET blockReward == RewardAt(config.Rewards, header.Number, 0)
        base == blockReward \div 10
    IN IF blockReward <= 0 THEN bal
       ELSE AddBalance(AddBalance(bal, header.Coinbase, base),
                       config.Pool, blockReward - base)

\* --------------------------------------------------- processTransactions
\* a transaction is <<kind, sender>>, kind "candidate", "candidateQuit" or
\* "plain" (data that NewTransaction does not decode)

RECURSIVE ProcessTxs(_, _, _, _)
ProcessTxs(st, config, number, txs) ==
    IF txs = <<>> THEN st
    ELSE LET become(a) ==
                IF st.bal[a] < config.MinCandidateBalance THEN st
                ELSE [snap |-> BecomeCandidate(st.snap, a, number,
                                               config.MinCandidateBalance).snap,
                      bal |-> SubBalance(st.bal, a, config.MinCandidateBalance),
                      hx |-> [st.hx EXCEPT !.CurrentBlockCandidates = Append(@, a)]]
             cancel(a, cc) ==
                IF cc.err THEN [st EXCEPT !.snap = cc.snap]
                ELSE [snap |-> cc.snap,
                      bal |-> AddBalance(st.bal, a, cc.security),
                      hx |-> [st.hx EXCEPT !.CurrentBlockCancelCandidates = Append(@, a)]]
             process(tx) ==
                CASE tx[1] = "candidate" -> become(tx[2])
                  [] tx[1] = "candidateQuit" ->
                       cancel(tx[2], CancelCandidate(st.snap, tx[2]))
                  [] OTHER -> st
         IN ProcessTxs(process(Head(txs)), config, number, Tail(txs))

processTransactions(config, bal, header, snap, headerExtra, txs) ==
    LET first == header.Number <= 1
        s0 == IF first THEN SetChainConfig(snap, config) ELSE snap
        h0 == IF first THEN [headerExtra EXCEPT !.ChainConfig = <<config>>]
              ELSE headerExtra
        st == ProcessTxs([snap |-> s0, bal |-> bal, hx |-> h0], config,
                         header.Number, txs)
    IN [st EXCEPT !.hx.CurrentBlockCandidates = addressesDistinct(@)]

\* ---------------------------------------------------------------- tryElect
RECURSIVE GenesisCandidates(_, _)
GenesisCandidates(st, validators) ==
    IF validators = <<>> THEN st
    ELSE GenesisCandidates(
           [snap |-> BecomeCandidate(st.snap, Head(validators), 1, 0).snap,
            hx |-> [st.hx EXCEPT !.CurrentBlockCandidates = Append(@, Head(validators))]],
           Tail(validators))

\* a variant of the kick-out loop without the safeSize guard
RECURSIVE KickOutAll(_, _, _, _)
KickOutAll(st, list, candidateCount, safeSize) ==
    IF st.err \/ list = <<>> THEN st
    ELSE LET cc == CancelCandidate(st.snap, Head(list).Address)
         IN IF cc.err THEN [st EXCEPT !.snap = cc.snap, !.err = TRUE]
            ELSE KickOutAll([snap |-> cc.snap, err |-> FALSE,
                             hx |-> [st.hx EXCEPT !.CurrentBlockKickOutCandidates =
                                       Append(@, Head(list).Address)]],
                            Tail(list), candidateCount - 1, safeSize)

\* the kick-out loop of tryElect: stops at safeSize candidates and at the
\* first CancelCandidate that fails
RECURSIVE KickOut(_, _, _, _)
KickOut(st, list, candidateCount, safeSize) ==
    IF st.err \/ list = <<>> \/ candidateCount <= safeSize THEN st
    ELSE LET cc == CancelCandidate(st.snap, Head(list).Address)
         IN IF cc.err THEN [st EXCEPT !.snap = cc.snap, !.err = TRUE]
            ELSE KickOut([snap |-> cc.snap, err |-> FALSE,
                          hx |-> [st.hx EXCEPT !.CurrentBlockKickOutCandidates =
                                    Append(@, Head(list).Address)]],
                         Tail(list), candidateCount - 1, safeSize)

tryElect(config, header, parent, snap, headerExtra) ==
    LET number == header.Number
        minMint == ((config.Epoch \div config.Period) \div config.MaxValidatorsCount) \div 2
        safeSize == (config.MaxValidatorsCount * 2) \div 3 + 1
        \* block 1: the genesis validators become the candidates
        genesis(g) ==
            [snap |-> g.snap, err |-> FALSE,
             hx |-> [g.hx EXCEPT !.CurrentBlockCandidates = addressesDistinct(@)]]
        \* later epoch blocks: kick out the validators that minted too little
        kickOut(st, needKickOutValidators, ec) ==
            KickOut([st EXCEPT !.snap = ec.snap], needKickOutValidators,
                    ec.count, safeSize)
        inactive(st, needKickOutValidators) ==
            IF st.err \/ Len(needKickOutValidators) = 0 THEN st
            ELSE kickOut(st, needKickOutValidators,
                         EnoughCandidates(st.snap,
                                          safeSize + Len(needKickOutValidators)))
        minted(cm) ==
            inactive([snap |-> cm.snap, err |-> cm.err, hx |-> headerExtra],
                     SelectSeq(cm.addresses, LAMBDA v : v.Weight < minMint))
        \* shuffle the candidates into the validators of the epoch
        validators(st, rc) ==
            [snap |-> SetValidators(rc.snap,
                                    st.hx.CurrentEpochValidators \o rc.candidates),
             hx |-> [st.hx EXCEPT !.CurrentEpochValidators = @ \o rc.candidates],
             err |-> FALSE]
        elect(st) ==
            IF st.err THEN [snap |-> st.snap, hx |-> st.hx, err |-> TRUE]
            ELSE validators(st, RandCandidates(st.snap, ParentSeed(parent),
                                               config.MaxValidatorsCount))
    IN IF number # headerExtra.EpochBlock
       THEN [snap |-> snap, hx |-> headerExtra, err |-> FALSE]
       ELSE elect(IF number <= 1
                  THEN genesis(GenesisCandidates([snap |-> snap, hx |-> headerExtra],
                                                 config.Validators))
                  ELSE minted(CountMinted(snap, headerExtra.Epoch - 1)))

\* ----------------------------------------------------------------- Prepare
\* a variant that starts an epoch at every multiple of config.Epoch
PrepareOnMultiples(parent, now, coinbase) ==
    LET number == parent.Number + 1
        cc == IF number = 1 THEN [err |-> FALSE, config |-> Config]
              ELSE chainConfigByHash(parent.Root.ConfigHash)
        config == cc.config
        t0 == parent.Time + config.Period
        time == IF t0 < now THEN now ELSE t0
        advance == number % config.Epoch = 0
        hx == IF number = 1 THEN HeaderExtra(1, number, ZeroRoot)
              ELSE IF advance THEN HeaderExtra(parent.Epoch + 1, number, parent.Root)
              ELSE HeaderExtra(parent.Epoch, parent.EpochBlock, parent.Root)
    IN [err |-> cc.err,
        header |-> [Number |-> number, Time |-> time, Coinbase |-> coinbase,
                    Linked |-> TRUE, Signer |-> NoSigner, Form |-> "ok",
                    Extra |-> hx]]

\* Prepare: header.Time and the epoch markers of the block after parent.
Prepare(parent, now, coinbase) ==
    LET number == parent.Number + 1
        cc == IF number = 1 THEN [err |-> FALSE, config |-> Config]
              ELSE chainConfigByHash(parent.Root.ConfigHash)
        config == cc.config
        t0 == parent.Time + config.Period
        time == IF t0 < now THEN now ELSE t0
        advance == number - parent.EpochBlock = config.Epoch
        hx == IF number = 1 THEN HeaderExtra(1, number, ZeroRoot)
              ELSE IF advance THEN HeaderExtra(parent.Epoch + 1, number, parent.Root)
              ELSE HeaderExtra(parent.Epoch, parent.EpochBlock, parent.Root)
    IN [err |-> cc.err,
        header |-> [Number |-> number, Time |-> time, Coinbase |-> coinbase,
                    Linked |-> TRUE, Signer |-> NoSigner, Form |-> "ok",
                    Extra |-> hx]]

\* ----------------------------------------------------- FinalizeAndAssemble
FinalizeAndAssemble(parent, header, bal, txs) ==
    LET root == IF header.Number > 1 THEN parent.Root ELSE ZeroRoot
        headerExtra == HeaderExtra(header.Extra.Epoch, header.Extra.EpochBlock, root)
        commit(pt, te, newRoot) ==
            [err |-> FALSE,
             header |-> [header EXCEPT !.Extra = [te.hx EXCEPT !.Root = newRoot]],
             bal |-> pt.bal,
             writes |-> CommitWrites(te.snap, newRoot)]
        elected(pt, te) ==
            IF te.err
            THEN [err |-> TRUE, header |-> header, bal |-> pt.bal, writes |-> {}]
            ELSE commit(pt, te, SnapRoot(te.snap))
        processed(config, pt) ==
            elected(pt, tryElect(config, header, parent, pt.snap, pt.hx))
        finalize(cc) ==
            IF cc.err
            THEN [err |-> TRUE, header |-> header, bal |-> bal, writes |-> {}]
            ELSE processed(cc.config,
                   processTransactions(
                     cc.config, accumulateRewards(cc.config, bal, header), header,
                     MintBlock(loadSnapshot(root), headerExtra.Epoch, header.Number,
                               header.Coinbase),
                     headerExtra, txs))
    IN finalize(chainConfig(parent))

\* -------------------------------------------------------------- verifySeal
verifySeal(config, header, parent) ==
    IF header.Number = 0 THEN "errUnknownBlock"
    ELSE IF header.Signer = NoSigner THEN "errEcrecover"
    ELSE IF ~inTurn(config, parent, header.Time, header.Signer) THEN "errUnauthorized"
    ELSE "ok"

\* --------------------------------------------------- verifyCascadingFields
\* the check of the header's (Epoch, EpochBlock) against the parent's
epochPairAny(headerExtra, parentEpoch, parentEpochBlock, number) == TRUE

epochPairOK(headerExtra, parentEpoch, parentEpochBlock, number) ==
    ~ /\ (headerExtra.Epoch # parentEpoch \/ headerExtra.EpochBlock # parentEpochBlock)
      /\ (headerExtra.Epoch # parentEpoch + 1 \/ headerExtra.EpochBlock # number)

\* a variant that commits the snapshot as soon as the roots agree
commitBeforeSeal(err, snap, root) ==
    IF err \in {"ok", "errEcrecover", "errUnauthorized"} THEN CommitWrites(snap, root)
    ELSE {}

\* the tail of verifyCascadingFields: Commit runs only when no check failed
commitIfAccepted(err, snap, root) ==
    IF err = "ok" THEN CommitWrites(snap, root) ELSE {}

\* result: the error ("ok" when accepted) and the trie roots Commit persists
verifyCascadingFields(header, parent) ==
    LET number == header.Number
        headerExtra == header.Extra
        first == parent.Number = 0
        snap == IF first THEN newSnapshot ELSE loadSnapshot(parent.Root)
        parentEpoch == IF first THEN headerExtra.Epoch ELSE parent.Epoch
        parentEpochBlock == IF first THEN headerExtra.EpochBlock ELSE parent.EpochBlock
        result(err, ap, root) ==
            IF err = "genesis" THEN [err |-> "ok", writes |-> {}]
            ELSE [err |-> err, writes |-> commitIfAccepted(err, ap.snap, root)]
        check(cc, ap, root) ==
            result(IF number = 0 THEN "genesis"
                   ELSE IF ~header.Linked \/ parent.Number # number - 1
                        THEN "ErrUnknownAncestor"
                   ELSE IF parent.Time > header.Time THEN "ErrInvalidTimestamp"
                   ELSE IF header.Form = "garbled" THEN "errDecode"
                   ELSE IF cc.err THEN "ErrChainConfigMissing"
                   ELSE IF ~epochPairOK(headerExtra, parentEpoch, parentEpochBlock,
                                        number)
                        THEN "ErrInvalidTimestamp"
                   ELSE IF ap.err THEN "errApply"
                   ELSE IF root # headerExtra.Root THEN "errInvalidRoot"
                   ELSE verifySeal(cc.config, header, parent),
                   ap, root)
        applied(cc, ap) == check(cc, ap, SnapRoot(ap.snap))
        configured(cc) == applied(cc, apply(snap, cc.config, header, headerExtra))
    IN configured(IF first THEN [err |-> FALSE, config |-> Config]
                  ELSE chainConfigByHash(parent.Root.ConfigHash))

\* ------------------------------------------------------------ verifyHeader
verifyHeader(header, parent, now) ==
    IF header.Time > now THEN [err |-> "ErrFutureBlock", writes |-> {}]
    ELSE IF header.Form = "noVanity" THEN [err |-> "errMissingVanity", writes |-> {}]
    ELSE IF header.Form = "noSeal" THEN [err |-> "errMissingSignature", writes |-> {}]
    ELSE IF header.Form = "mixDigest" THEN [err |-> "errInvalidMixDigest", writes |-> {}]
    ELSE IF header.Form = "uncleHash" THEN [err |-> "errInvalidUncleHash", writes |-> {}]
    ELSE verifyCascadingFields(header, parent)

\* =========================================================== state machine
VARIABLES
    chain,      \* the accepted headers, chain[i] being block i (Stored form)
    db,         \* the trie roots persisted in the database: <<table, hash>>
    balances,   \* StateDB balances at the chain tip
    assembled,  \* blocks the producer assembled so far
    txCount,    \* custom transactions carried by the blocks assembled so far
    pending,    \* the block the producer assembled on the tip, if any
    last,       \* the header last given to verifyHeader and its result
    subject,    \* the arguments of a function applied on its own
    outcome     \* what that function returned

vars == <<chain, db, balances, assembled, txCount, pending, last, subject, outcome>>

node == <<chain, db, balances, assembled, txCount, pending, last>>

Idle == [kind |-> "none"]

NoBlock == [kind |-> "none"]

NoVerify == [kind |-> "none"]

Tip == IF chain = <<>> THEN Genesis ELSE chain[Len(chain)]

InitBalances == [a \in Addr \cup {ZeroAddr} |-> IF a = 1 THEN 2 ELSE IF a = 2 THEN 1
                                               ELSE IF a = 3 THEN 4 ELSE 0]

Init ==
    /\ chain = <<>>
    /\ db = {}
    /\ balances = InitBalances
    /\ assembled = 0
    /\ txCount = 0
    /\ pending = NoBlock
    /\ last = NoVerify
    /\ subject = Idle
    /\ outcome = Idle

CustomTxs == ({"candidate", "candidateQuit"} \X Addr) \cup {<<"plain", 1>>}

TxLists(n) == UNION {[1..k -> CustomTxs] : k \in 0..n}

\* the producer: Prepare, then FinalizeAndAssemble, on the chain tip
Assemble(now, coinbase, txs) ==
    LET finalized(prep, fa) ==
            IF prep.err \/ fa.err
            THEN /\ pending' = [kind |-> "failed", header |-> prep.header]
                 /\ db' = db
            ELSE /\ pending' = [kind |-> "block", header |-> fa.header, bal |-> fa.bal]
                 /\ db' = db \cup fa.writes
        prepared(prep) ==
            /\ prep.header.Time <= MaxTime
            /\ finalized(prep, FinalizeAndAssemble(Tip, prep.header, balances, txs))
    IN /\ assembled < MaxBlocks
       /\ pending.kind # "block"
       /\ last = NoVerify
       /\ prepared(Prepare(Tip, now, coinbase))
       /\ assembled' = assembled + 1
       /\ txCount' = txCount + Len(txs)
       /\ UNCHANGED <<chain, balances, last, subject, outcome>>

\* the root a verifier computes for the header on the parent snapshot
ApplyRoot(header, parent) ==
    LET first == parent.Number = 0
        snap == IF first THEN newSnapshot ELSE loadSnapshot(parent.Root)
        applied(cc, ap) ==
            IF cc.err \/ ap.err THEN header.Extra.Root ELSE SnapRoot(ap.snap)
        configured(cc) == applied(cc, apply(snap, cc.config, header, header.Extra))
    IN configured(IF first THEN [err |-> FALSE, config |-> Config]
                  ELSE chainConfigByHash(parent.Root.ConfigHash))

Rerooted(header, parent) == [header EXCEPT !.Extra.Root = ApplyRoot(header, parent)]

\* the producer's block under every seal signer
Resigned(header) == {[header EXCEPT !.Signer = s] : s \in Addr \cup {NoSigner}}

Forms == {"noVanity", "noSeal", "mixDigest", "uncleHash", "garbled"}

\* headers a peer may send in place of the producer's block
Forged(header, parent) ==
    {[header EXCEPT !.Time = t, !.Signer = s] : t \in Times, s \in Addr \cup {NoSigner}}
    \cup {Rerooted([header EXCEPT !.Extra.Epoch = e, !.Extra.EpochBlock = b,
                                  !.Signer = s], parent) :
            e \in {parent.Epoch, parent.Epoch + 1, parent.Epoch + 2},
            b \in {parent.EpochBlock, header.Number},
            s \in Addr}
    \cup {[header EXCEPT !.Extra.Root.MintCntHash = ZeroHash, !.Signer = s] : s \in Addr}
    \cup {[header EXCEPT !.Extra.CurrentBlockCancelCandidates = Append(@, a),
                         !.Signer = s] : a \in Addr, s \in Addr}
    \cup {[header EXCEPT !.Linked = FALSE]}
    \cup {[header EXCEPT !.Form = f] : f \in Forms}

\* the verifier: verifyHeader on a received header whose parent is the tip
Verify(header, now) ==
    LET verified(r) ==
            /\ last' = [kind |-> "verified", header |-> header, parent |-> Tip,
                        now |-> now, err |-> r.err, produced |-> pending.header]
            /\ db' = db \cup r.writes
            /\ IF r.err = "ok"
               THEN /\ chain' = Append(chain, Stored(header))
                    /\ balances' = pending.bal
               ELSE UNCHANGED <<chain, balances>>
    IN /\ pending.kind = "block"
       /\ verified(verifyHeader(header, Tip, now))
       /\ pending' = NoBlock
       /\ UNCHANGED <<assembled, txCount, subject, outcome>>

\* the caller of verifyHeader takes the result
TakeResult ==
    /\ last # NoVerify
    /\ last' = NoVerify
    /\ UNCHANGED <<chain, db, balances, assembled, txCount, pending, subject, outcome>>

\* ---- Spec: the producer with every transaction list, its blocks delivered
\*      under every seal signer
ProduceOnTime ==
    \E coinbase \in Addr, txs \in TxLists(MaxTxs - txCount) :
        Assemble(Tip.Time, coinbase, txs)

DeliverSealed ==
    /\ pending.kind = "block"
    /\ \E header \in Resigned(pending.header), now \in {Tip.Time, MaxTime} :
         Verify(header, now)

Next ==
    \/ ProduceOnTime
    \/ DeliverSealed
    \/ TakeResult

Spec == Init /\ [][Next]_vars

\* ---- SpecVerify: a producer with any clock and at most one transaction per
\*      block, and a peer that delivers forged headers too
ProduceAnyTime ==
    \E now \in Times, coinbase \in Addr, txs \in TxLists(Min(1, MaxTxs - txCount)) :
        /\ now >= Tip.Time
        /\ assembled < MaxVerifyBlocks
        /\ Assemble(now, coinbase, txs)

DeliverAny ==
    /\ pending.kind = "block"
    /\ \E header \in Resigned(pending.header) \cup Forged(pending.header, Tip),
          now \in {Tip.Time, MaxTime} :
         Verify(header, now)

NextVerify ==
    \/ ProduceAnyTime
    \/ DeliverAny
    \/ TakeResult

SpecVerify == Init /\ [][NextVerify]_vars

\* ================================================================ properties
Verified == last.kind = "verified"

\* the producer's own block, whatever key sealed it
OwnBlock == Verified /\ last.header \in Resigned(last.produced)

PersistedRoot(root) == \A t \in Tables : <<t, RootField(root, t)>> \in db

\* C1: replaying the HeaderExtra of a block assembled by FinalizeAndAssemble
\* with Snapshot.apply on the same parent snapshot gives the Root the producer
\* wrote, so the producer's own block is never rejected for its root (or for a
\* failing apply).
C1_ProducerVerifierSameRoot ==
    OwnBlock => last.err \notin {"errInvalidRoot", "errApply"}

\* the validator list verifySeal reads for a header on this parent
ParentValidators(parent) ==
    IF parent.Number = 0 THEN Config.Validators
    ELSE GetValidators(loadSnapshot(parent.Root)).validators

\* validators[((Time - GenesisTimestamp) / Period) mod |validators|], 1-based
SlotSigner(validators, time) ==
    validators[((USub(time, Config.GenesisTimestamp) \div Config.Period)
                % Len(validators)) + 1]

\* C2: an accepted header (number >= 1) is signed by the validator of its
\* slot in the parent's validator list, and a header that only differs from
\* an acceptable one by its signer is rejected with errUnauthorized.
C2_AcceptedSignerInTurn ==
    Verified =>
        LET h == last.header
            vs == ParentValidators(last.parent)
        IN /\ last.err = "ok" =>
                /\ h.Number >= 1
                /\ vs # <<>>
                /\ h.Signer = SlotSigner(vs, h.Time)
           /\ (/\ vs # <<>>
               /\ h.Signer \notin {NoSigner, SlotSigner(vs, h.Time)}
               /\ verifyHeader([h EXCEPT !.Signer = SlotSigner(vs, h.Time)],
                               last.parent, last.now).err = "ok")
              => last.err = "errUnauthorized"

C2_Witness ==
    /\ Verified /\ last.err = "ok"
    /\ last.parent.Number >= 1
    /\ last.header.Signer # last.header.Coinbase

\* a step in which verifyHeader returned
VerifyStep == last' # last /\ last'.kind = "verified"

\* C4: a header that verifyCascadingFields (or verifyHeader before it) rejects
\* leaves the persisted trie database exactly as it was; only an accepted
\* header, whose root comparison and seal check both passed, adds to it.
C4_RejectPersistsNothing ==
    [][VerifyStep =>
         IF last'.err = "ok"
         THEN db' = db \cup {<<t, RootField(last'.header.Extra.Root, t)>> : t \in
                               {u \in Tables :
                                  RootField(last'.parent.Root, u)
                                    # RootField(last'.header.Extra.Root, u)}}
         ELSE db' = db]_vars

\* the seal check failed on a header whose recomputed root matched and whose
\* tables are not in the database
C4_Witness ==
    /\ Verified /\ last.err = "errUnauthorized"
    /\ ~PersistedRoot(last.header.Extra.Root)

\* C5: a header whose Time is lower than its parent's Time plus the period is
\* rejected (with ErrInvalidTimestamp), so no two consecutive accepted blocks
\* fall into one slot.
C5_RejectsEarlyHeader ==
    (Verified /\ last.header.Time < last.parent.Time + Config.Period)
        => last.err # "ok"

\* the header's (Epoch, EpochBlock) is the parent's, or (parent.Epoch + 1, Number)
PairAllowed(h, parent) ==
    \/ (h.Extra.Epoch = parent.Epoch /\ h.Extra.EpochBlock = parent.EpochBlock)
    \/ (h.Extra.Epoch = parent.Epoch + 1 /\ h.Extra.EpochBlock = h.Number)

\* the errors of the checks that come before the check of the pair
EarlyErrors ==
    {"ErrFutureBlock", "errMissingVanity", "errMissingSignature",
     "errInvalidMixDigest", "errInvalidUncleHash", "ErrUnknownAncestor", "errDecode"}

\* C6: a header with number >= 2 is accepted only with an allowed (Epoch,
\* EpochBlock) pair; with any other pair it is rejected, with
\* ErrInvalidTimestamp once it is well-formed, linked and not from the future,
\* never by a later check, and nothing is persisted.
C6_EpochPairChecked ==
    [][(VerifyStep /\ last'.header.Number >= 2) =>
         LET h == last'.header
             allowed == PairAllowed(h, last'.parent)
         IN /\ last'.err = "ok" => allowed
            /\ ~allowed =>
                 /\ last'.err \in EarlyErrors \cup {"ErrInvalidTimestamp"}
                 /\ (h.Form = "ok" /\ h.Linked /\ h.Time <= last'.now)
                      => last'.err = "ErrInvalidTimestamp"
                 /\ db' = db]_vars

\* a header of block 2 that passes the timestamp check and is rejected for its pair
C6_Witness ==
    /\ Verified /\ last.header.Number >= 2
    /\ ~PairAllowed(last.header, last.parent)
    /\ last.header.Time >= last.parent.Time
    /\ last.err = "ErrInvalidTimestamp"
    /\ ~PersistedRoot(last.header.Extra.Root)

\* C7: in a block assembled by FinalizeAndAssemble, CurrentEpochValidators is
\* non-empty exactly when header.Number = HeaderExtra.EpochBlock.
C7_ValidatorsExactlyAtEpochBlock ==
    pending.kind = "block" =>
        LET hx == pending.header.Extra
        IN (hx.CurrentEpochValidators # <<>>) <=> (pending.header.Number = hx.EpochBlock)

\* the mint table a chain of headers should have: (Epoch, number) -> Coinbase
MintLog(headers) ==
    [k \in {<<headers[i].Epoch, i>> : i \in 1..Len(headers)} |-> headers[k[2]].Coinbase]

\* C8: the mint table of the chain tip holds exactly one entry per block,
\* keyed (Epoch of the block, number) and valued with the block's Coinbase, and
\* so does the table of a block assembled on the tip; no block changes the
\* entry of an earlier one.
C8_OneMintEntryPerBlock ==
    /\ Tip.Root.MintCntHash.c = MintLog(chain)
    /\ pending.kind = "block" =>
         pending.header.Extra.Root.MintCntHash.c
           = MintLog(Append(chain, Stored(pending.header)))

\* three blocks over two epochs, minted by different coinbases
C8_Witness ==
    /\ Len(chain) = 3
    /\ chain[3].Epoch # chain[1].Epoch
    /\ chain[1].Coinbase # chain[2].Coinbase

\* ============================================ functions applied on their own
Seqs(S, n) == UNION {[1..k -> S] : k \in 0..n}

Injective(s) == \A i, j \in DOMAIN s : s[i] = s[j] => i = j

\* ---- SpecInTurn: inTurn on every small configuration, parent and time
GenesisTimestamps == 0..MaxGenesisTimestamp

Periods == 1..MaxPeriod

\* parents: block 0; a block whose snapshot stores the list; a block whose
\* snapshot stores no list
TurnParent(kind, validators) ==
    CASE kind = "genesis" -> Genesis
      [] kind = "block" ->
           [Genesis EXCEPT !.Number = 1,
                           !.Root = SnapRoot(SetValidators(newSnapshot, validators))]
      [] kind = "bare" -> [Genesis EXCEPT !.Number = 1]

InitInTurn ==
    /\ chain = <<>> /\ db = {} /\ balances = InitBalances
    /\ assembled = 0 /\ txCount = 0 /\ pending = NoBlock /\ last = NoVerify
    /\ outcome = Idle
    /\ \E validators \in Seqs(Addr, MaxValidators), g \in GenesisTimestamps,
          p \in Periods, time \in Times, kind \in {"genesis", "block", "bare"} :
         subject = [kind |-> "inTurn",
                    config |-> [Config EXCEPT !.GenesisTimestamp = g, !.Period = p,
                                             !.Validators =
                                                IF kind = "genesis" THEN validators
                                                ELSE Config.Validators],
                    lastBlockHeader |-> TurnParent(kind, validators),
                    nexBlockTime |-> time,
                    validators |-> IF kind = "bare" THEN <<>> ELSE validators]

\* inTurn asked for every signer
InTurnCall ==
    /\ subject.kind = "inTurn"
    /\ outcome = Idle
    /\ outcome' = [kind |-> "inTurn",
                   signers |-> {a \in Addr : inTurn(subject.config, subject.lastBlockHeader,
                                                    subject.nexBlockTime, a)}]
    /\ UNCHANGED <<node, subject>>

NextInTurn == InTurnCall

SpecInTurn == InitInTurn /\ [][NextInTurn]_vars

MintEpochs == 1..MaxMintEpoch

\* one MintBlock for the next block number, and the count of calls so far
MintStep(st, epoch, v) ==
    [st EXCEPT !.snap = MintBlock(st.snap, epoch, st.next, v),
               !.next = st.next + 1,
               !.minted[<<epoch, v>>] = @ + 1]

RECURSIVE MintRun(_, _, _, _)
MintRun(st, epoch, v, n) ==
    IF n = 0 THEN st ELSE MintRun(MintStep(st, epoch, v), epoch, v, n - 1)

\* counts[a] blocks of epoch 1 for every address a, in address order
RECURSIVE MintCounts(_, _, _)
MintCounts(st, counts, a) ==
    IF a > NAddr THEN st
    ELSE MintCounts(MintRun(st, 1, a, counts[a]), counts, a + 1)

InitMint ==
    /\ chain = <<>> /\ db = {} /\ balances = InitBalances
    /\ assembled = 0 /\ txCount = 0 /\ pending = NoBlock /\ last = NoVerify
    /\ outcome = Idle
    /\ \E hasList \in BOOLEAN,
          validators \in {l \in Seqs(Addr, MaxValidators) : Injective(l)},
          counts \in [Addr -> 0..MaxCount], later \in Addr \cup {ZeroAddr} :
         LET st0 == [kind |-> "mint", hasList |-> hasList, validators |-> validators,
                     snap |-> IF hasList THEN SetValidators(newSnapshot, validators)
                              ELSE newSnapshot,
                     next |-> 1, extra |-> 0,
                     minted |-> [k \in (1..MaxMintEpoch + 1) \X Addr |-> 0]]
             st1 == MintCounts(st0, counts, 1)
         IN /\ hasList \/ validators = <<>>
            /\ subject = IF later = ZeroAddr THEN st1 ELSE MintStep(st1, 2, later)

MintBlockCall(epoch, v) ==
    /\ subject.kind = "mint"
    /\ subject.extra < MaxExtraMints
    /\ outcome = Idle
    /\ subject' = [MintStep(subject, epoch, v) EXCEPT !.extra = @ + 1]
    /\ UNCHANGED <<node, outcome>>

CountMintedCall(epoch) ==
    LET cm == CountMinted(subject.snap, epoch)
    IN /\ subject.kind = "mint"
       /\ outcome = Idle
       /\ subject' = [subject EXCEPT !.snap = cm.snap]
       /\ outcome' = [kind |-> "CountMinted", epoch |-> epoch, err |-> cm.err,
                      addresses |-> cm.addresses]
       /\ UNCHANGED node

NextMint ==
    \/ \E epoch \in MintEpochs, v \in Addr : MintBlockCall(epoch, v)
    \/ \E epoch \in 1..MaxMintEpoch + 1 : CountMintedCall(epoch)

SpecMint == InitMint /\ [][NextMint]_vars

Counted == outcome.kind = "CountMinted"

\* C9: CountMinted(e) fails when no validator list is stored; otherwise it
\* reports exactly the addresses of the list, each with the number of
\* MintBlock(e, number, v) calls (pairwise distinct numbers) made for it in
\* epoch e: 0 for a validator that minted nothing, calls of other epochs and
\* of addresses outside the list uncounted.
C9_WeightIsMintCount ==
    Counted =>
        IF ~subject.hasList THEN outcome.err
        ELSE /\ ~outcome.err
             /\ Len(outcome.addresses) = Len(subject.validators)
             /\ {outcome.addresses[i].Address : i \in DOMAIN outcome.addresses}
                  = Range(subject.validators)
             /\ \A i \in DOMAIN outcome.addresses :
                  outcome.addresses[i].Weight
                    = subject.minted[<<outcome.epoch, outcome.addresses[i].Address>>]

\* a validator with two blocks in the epoch and one in the next, a validator
\* with none, and blocks of an address outside the list
C9_Witness ==
    /\ Counted /\ ~outcome.err /\ outcome.epoch = 1
    /\ \E v, w \in Range(subject.validators), x \in Addr \ Range(subject.validators) :
         /\ subject.minted[<<1, v>>] = 2 /\ subject.minted[<<2, v>>] = 1
         /\ subject.minted[<<1, w>>] = 0
         /\ subject.minted[<<1, x>>] > 0

\* the validator list and mint counts of TestCountMinted, counted for epoch 1
CountExample ==
    /\ Counted /\ outcome.epoch = 1
    /\ subject.hasList /\ subject.validators = <<1, 2, 3>>
    /\ subject.minted[<<1, 1>>] = 3
    /\ subject.minted[<<1, 2>>] = 2
    /\ subject.minted[<<1, 3>>] = 4

Entry(a, w) == [Address |-> a, Weight |-> w]

\* C10 as stated: CountMinted returns the validators by descending mint
\* count, ties by ascending address; counts A:3, B:2, C:4 give [C:4, A:3, B:2].
C10_SortedDescending ==
    Counted =>
        /\ \A i, j \in DOMAIN outcome.addresses :
             i < j => \/ outcome.addresses[i].Weight > outcome.addresses[j].Weight
                      \/ /\ outcome.addresses[i].Weight = outcome.addresses[j].Weight
                         /\ AddrString(outcome.addresses[i].Address)
                              < AddrString(outcome.addresses[j].Address)
        /\ CountExample => outcome.addresses = <<Entry(3, 4), Entry(1, 3), Entry(2, 2)>>

\* C10: CountMinted returns the validators by ascending mint count, ties by
\* descending Address.String(); counts A:3, B:2, C:4 give [B:2, A:3, C:4].
C10_SortedAscending ==
    Counted =>
        /\ \A i, j \in DOMAIN outcome.addresses :
             i < j => \/ outcome.addresses[i].Weight < outcome.addresses[j].Weight
                      \/ /\ outcome.addresses[i].Weight = outcome.addresses[j].Weight
                         /\ AddrString(outcome.addresses[i].Address)
                              > AddrString(outcome.addresses[j].Address)
        /\ CountExample => outcome.addresses = <<Entry(2, 2), Entry(1, 3), Entry(3, 4)>>

C10_Witness ==
    /\ CountExample
    /\ outcome.addresses = <<Entry(2, 2), Entry(1, 3), Entry(3, 4)>>

\* C11: CountMinted returns the validators in ascending order of mint count,
\* a least-minted validator first; counts validator1:3, validator2:2,
\* validator3:4 give [validator2:2, validator1:3, validator3:4].
C11_LeastMintedFirst ==
    (Counted /\ ~outcome.err) =>
        /\ \A i \in 1..Len(outcome.addresses) - 1 :
             outcome.addresses[i].Weight <= outcome.addresses[i + 1].Weight
        /\ outcome.addresses # <<>> =>
             \A v \in Range(subject.validators) :
                outcome.addresses[1].Weight <= subject.minted[<<outcome.epoch, v>>]
        /\ CountExample =>
             /\ outcome.addresses[1] = Entry(2, 2)
             /\ outcome.addresses[2] = Entry(1, 3)
             /\ outcome.addresses[3] = Entry(3, 4)

\* three validators with pairwise different counts, the last of the list
\* having minted least
C11_Witness ==
    /\ Counted /\ ~outcome.err
    /\ Len(subject.validators) = 3
    /\ outcome.addresses[1].Address = subject.validators[3]
    /\ outcome.addresses[1].Weight < outcome.addresses[2].Weight
    /\ outcome.addresses[2].Weight < outcome.addresses[3].Weight

\* ---- SpecCandidates: BecomeCandidate, CancelCandidate and RandCandidates on
\*      a snapshot of its own
Securities == 0..MaxSecurity

Numbers == 1..MaxNumber

Seeds == 0..MaxSeed

InitCandidates ==
    /\ chain = <<>> /\ db = {} /\ balances = InitBalances
    /\ assembled = 0 /\ txCount = 0 /\ pending = NoBlock /\ last = NoVerify
    /\ subject = [kind |-> "candidates", snap |-> newSnapshot, calls |-> 0]
    /\ outcome = Idle

\* the candidate table of a snapshot, as the candidate trie holds it
CandidateTable(snap) == ensureTrie(snap, "candidate").tab["candidate"]

BecomeCandidateCall(a, n, security) ==
    LET called(r) ==
            /\ subject' = [subject EXCEPT !.snap = r.snap, !.calls = @ + 1]
            /\ outcome' = [kind |-> "BecomeCandidate", call |-> subject.calls + 1,
                           addr |-> a, number |-> n, security |-> security,
                           exists |-> r.exists,
                           before |-> CandidateTable(subject.snap),
                           rootBefore |-> SnapRoot(ensureTrie(subject.snap, "candidate")),
                           root |-> SnapRoot(r.snap)]
    IN /\ subject.kind = "candidates"
       /\ subject.calls < MaxCalls
       /\ called(BecomeCandidate(subject.snap, a, n, security))
       /\ UNCHANGED node

CancelCandidateCall(a) ==
    LET called(r) ==
            /\ subject' = [subject EXCEPT !.snap = r.snap, !.calls = @ + 1]
            /\ outcome' = [kind |-> "CancelCandidate", call |-> subject.calls + 1,
                           addr |-> a, err |-> r.err, security |-> r.security,
                           before |-> CandidateTable(subject.snap)]
    IN /\ subject.kind = "candidates"
       /\ subject.calls < MaxCalls
       /\ called(CancelCandidate(subject.snap, a))
       /\ UNCHANGED node

RandCandidatesCall(seed, n) ==
    LET called(r) ==
            /\ subject' = [subject EXCEPT !.snap = r.snap, !.calls = @ + 1]
            /\ outcome' = [kind |-> "RandCandidates", call |-> subject.calls + 1,
                           seed |-> seed, n |-> n, candidates |-> r.candidates,
                           before |-> CandidateTable(subject.snap)]
    IN /\ subject.kind = "candidates"
       /\ subject.calls < MaxCalls
       /\ called(RandCandidates(subject.snap, seed, n))
       /\ UNCHANGED node

NextCandidates ==
    \/ \E a \in Addr, n \in Numbers, security \in Securities :
         BecomeCandidateCall(a, n, security)
    \/ \E a \in Addr : CancelCandidateCall(a)
    \/ \E seed \in Seeds, n \in -1..NAddr + 1 : RandCandidatesCall(seed, n)

SpecCandidates == InitCandidates /\ [][NextCandidates]_vars

\* C12: BecomeCandidate for an address that is a candidate returns
\* alreadyExists = true and leaves the candidate table as it was, the record
\* keeping its first Security and BlockNumber; for any other address it
\* returns false and stores the record; so a second BecomeCandidate(a, ...)
\* right after a first leaves the candidate root of the first.
C12_BecomeCandidateIdempotent ==
    [][outcome'.kind = "BecomeCandidate" /\ outcome' # outcome =>
         LET o == outcome'
             table == CandidateTable(subject'.snap)
         IN /\ o.exists <=> o.addr \in DOMAIN o.before
            /\ o.exists => /\ table = o.before
                           /\ o.root.CandidateHash = o.rootBefore.CandidateHash
            /\ ~o.exists =>
                 table = FcnPut(o.before, o.addr,
                                [Security |-> o.security, BlockNumber |-> o.number])
            /\ (outcome.kind = "BecomeCandidate" /\ outcome.addr = o.addr) =>
                 /\ o.exists
                 /\ o.root.CandidateHash = outcome.root.CandidateHash]_vars

\* BecomeCandidate twice for one address, with another number and security
C12_Witness ==
    /\ outcome.kind = "BecomeCandidate" /\ outcome.exists
    /\ outcome.before[outcome.addr].Security # outcome.security
    /\ outcome.before[outcome.addr].BlockNumber # outcome.number
    /\ CandidateTable(subject.snap) = outcome.before

\* C16: RandCandidates(seed, n) with n > 0 returns min(n, |C|) pairwise
\* different candidates, the head of a permutation of the candidates that
\* only the candidate set and the seed determine; it returns nothing when
\* there is no candidate or n <= 0.
C16_RandCandidatesPrefix ==
    outcome.kind = "RandCandidates" =>
        LET C == DOMAIN outcome.before
            bare == [a \in C |-> [Security |-> 0, BlockNumber |-> 1]]
            fresh == [loadSnapshot(ZeroRoot) EXCEPT !.mat["candidate"] = TRUE,
                                                    !.tab["candidate"] = bare]
            all == RandCandidates(fresh, outcome.seed, NAddr).candidates
        IN IF outcome.n <= 0 \/ C = {} THEN outcome.candidates = <<>>
           ELSE /\ Len(outcome.candidates) = Min(outcome.n, Cardinality(C))
                /\ Injective(outcome.candidates)
                /\ Range(outcome.candidates) \subseteq C
                /\ Range(all) = C /\ Len(all) = Cardinality(C)
                /\ outcome.candidates = SubSeq(all, 1, Len(outcome.candidates))

\* two of three candidates drawn, not in key order
C16_Witness ==
    /\ outcome.kind = "RandCandidates"
    /\ Cardinality(DOMAIN outcome.before) = 3
    /\ outcome.n = 2
    /\ Len(outcome.candidates) = 2
    /\ outcome.candidates[1] > outcome.candidates[2]

\* ---- SpecFinalize: the custom transactions and the election of
\*      FinalizeAndAssemble, block after block, for every genesis validator list
Coinbases == {1, 2}

InitFinalize ==
    /\ chain = <<>> /\ db = {} /\ balances = InitBalances
    /\ assembled = 0 /\ txCount = 0 /\ pending = NoBlock /\ last = NoVerify
    /\ outcome = Idle
    /\ \E validators \in Seqs(Addr, MaxGenesisValidators) :
         subject = [kind |-> "finalize",
                    config |-> [Config EXCEPT !.Validators = validators],
                    parent |-> Genesis, bal |-> InitBalances, txs |-> 0]

\* accumulateRewards, MintBlock, processTransactions and tryElect as
\* FinalizeAndAssemble runs them on the parent snapshot, for the header
\* Prepare makes; outcome.before is the state the transactions start from
FinalizeCall(coinbase, txs) ==
    LET parent == subject.parent
        config == subject.config
        header == [Prepare(parent, parent.Time, coinbase).header
                     EXCEPT !.Time = parent.Time + config.Period]
        root == IF header.Number > 1 THEN parent.Root ELSE ZeroRoot
        headerExtra == HeaderExtra(header.Extra.Epoch, header.Extra.EpochBlock, root)
        before == [table |-> CandidateTable(loadSnapshot(root)),
                   bal |-> accumulateRewards(config, subject.bal, header)]
        elected(pt, te) ==
            /\ outcome' = [kind |-> "finalize", number |-> header.Number, txs |-> txs,
                           err |-> te.err, before |-> before,
                           processed |-> [table |-> CandidateTable(pt.snap),
                                          bal |-> pt.bal, hx |-> pt.hx],
                           hx |-> te.hx]
            /\ subject' =
                 IF te.err THEN [subject EXCEPT !.txs = @ + Len(txs)]
                 ELSE [subject EXCEPT
                         !.txs = @ + Len(txs),
                         !.bal = pt.bal,
                         !.parent = Stored([header EXCEPT !.Extra =
                                       [te.hx EXCEPT !.Root = SnapRoot(te.snap)]])]
        processed(pt) == elected(pt, tryElect(config, header, parent, pt.snap, pt.hx))
    IN /\ subject.kind = "finalize"
       /\ subject.parent.Number < MaxFinalizeBlocks
       /\ processed(processTransactions(
                      config, before.bal, header,
                      MintBlock(loadSnapshot(root), headerExtra.Epoch, header.Number,
                                header.Coinbase),
                      headerExtra, txs))
       /\ UNCHANGED node

NextFinalize ==
    \E coinbase \in Coinbases, txs \in TxLists(MaxFinalizeTxs - subject.txs) :
        FinalizeCall(coinbase, txs)

SpecFinalize == InitFinalize /\ [][NextFinalize]_vars

Finalized == outcome.kind = "finalize"

\* a block whose only transaction is <<kind, a>>
OnlyTx(kind, a) == Finalized /\ outcome.txs = <<(<<kind, a>>)>>

\* C13: a candidateQuit transaction from a candidate removes the sender's
\* record, credits the sender the Security of that record and appends the
\* sender to CurrentBlockCancelCandidates; nothing of the record stays, so a
\* BecomeCandidate(a, n, s) after it stores the record (s, n).
C13_QuitRefundsSecurity ==
    \A a \in Addr :
        (OnlyTx("candidateQuit", a) /\ a \in DOMAIN outcome.before.table) =>
            LET o == outcome
                after == [loadSnapshot(ZeroRoot) EXCEPT
                            !.mat["candidate"] = TRUE,
                            !.tab["candidate"] = o.processed.table]
            IN /\ o.processed.table = FcnDel(o.before.table, a)
               /\ o.processed.bal =
                    [o.before.bal EXCEPT ![a] = @ + o.before.table[a].Security]
               /\ o.processed.hx.CurrentBlockCancelCandidates = <<a>>
               /\ \A n \in Numbers, sec \in Securities :
                    LET bc == BecomeCandidate(after, a, n, sec)
                    IN /\ ~bc.exists
                       /\ CandidateTable(bc.snap)[a]
                            = [Security |-> sec, BlockNumber |-> n]

\* a sender that paid MinCandidateBalance for its record quits and is refunded
C13_Witness ==
    \E a \in Addr :
        /\ OnlyTx("candidateQuit", a)
        /\ a \in DOMAIN outcome.before.table
        /\ outcome.before.table[a].Security = Config.MinCandidateBalance
        /\ outcome.processed.bal[a] = outcome.before.bal[a] + Config.MinCandidateBalance
        /\ a \notin DOMAIN outcome.processed.table

\* C14: a become-candidate transaction of a sender with less than
\* MinCandidateBalance changes nothing; otherwise a candidate record is
\* written, the sender is debited MinCandidateBalance and appended to
\* CurrentBlockCandidates; no balance becomes negative.
C14_BecomeDebitsForRecord ==
    /\ Finalized => \A a \in DOMAIN outcome.processed.bal : outcome.processed.bal[a] >= 0
    /\ \A a \in Addr :
         OnlyTx("candidate", a) =>
            LET o == outcome
                min == Config.MinCandidateBalance
            IN IF o.before.bal[a] < min
               THEN /\ o.processed.table = o.before.table
                    /\ o.processed.bal = o.before.bal
                    /\ o.processed.hx.CurrentBlockCandidates = <<>>
               ELSE /\ o.processed.table =
                         FcnPut(o.before.table, a,
                                [Security |-> min, BlockNumber |-> o.number])
                    /\ o.processed.bal = [o.before.bal EXCEPT ![a] = @ - min]
                    /\ o.processed.hx.CurrentBlockCandidates = <<a>>

\* the senders of the become-candidate transactions that processTransactions
\* accepted, in order
RECURSIVE Accepted(_, _, _, _)
Accepted(st, config, number, txs) ==
    IF txs = <<>> THEN <<>>
    ELSE (IF Head(txs)[1] = "candidate"
             /\ st.bal[Head(txs)[2]] >= config.MinCandidateBalance
          THEN <<Head(txs)[2]>> ELSE <<>>)
         \o Accepted(ProcessTxs(st, config, number, <<Head(txs)>>), config, number,
                     Tail(txs))

\* the first occurrences of a sequence, in order
RECURSIVE FirstOccurrences(_)
FirstOccurrences(seq) ==
    IF seq = <<>> THEN <<>>
    ELSE LET front == FirstOccurrences(SubSeq(seq, 1, Len(seq) - 1))
         IN IF seq[Len(seq)] \in Range(front) THEN front
            ELSE Append(front, seq[Len(seq)])

\* C15: after processTransactions and tryElect, CurrentBlockCandidates holds
\* no address twice and lists the accepted senders, then (in block 1) the
\* genesis validators, each at its first occurrence.
C15_CandidatesDistinct ==
    (Finalized /\ ~outcome.err) =>
        LET o == outcome
            st0 == [snap |-> [loadSnapshot(ZeroRoot) EXCEPT
                                !.mat["candidate"] = TRUE,
                                !.tab["candidate"] = o.before.table],
                    bal |-> o.before.bal, hx |-> HeaderExtra(0, 0, ZeroRoot)]
            raw == Accepted(st0, subject.config, o.number, o.txs)
                   \o (IF o.number <= 1 THEN subject.config.Validators ELSE <<>>)
        IN /\ Injective(o.hx.CurrentBlockCandidates)
           /\ o.hx.CurrentBlockCandidates = FirstOccurrences(raw)

\* block 1 with a sender registering twice and a genesis list naming that
\* sender twice
C15_Witness ==
    /\ Finalized /\ ~outcome.err /\ outcome.number = 1
    /\ \E a \in Addr :
         /\ Len(outcome.txs) >= 2
         /\ outcome.txs[1] = <<"candidate", a>> /\ outcome.txs[2] = <<"candidate", a>>
         /\ outcome.before.bal[a] >= 2 * Config.MinCandidateBalance
         /\ subject.config.Validators = <<a, a>>
         /\ outcome.hx.CurrentBlockCandidates = <<a>>

\* ---- SpecRewards: accumulateRewards for every small reward schedule, pool
\*      address and coinbase
RewardAmounts == {0, 5, 10, 20}

RewardEntries == [Number : 1..MaxRewardNumber - 1, Reward : RewardAmounts]

InitRewards ==
    /\ chain = <<>> /\ db = {} /\ balances = InitBalances
    /\ assembled = 0 /\ txCount = 0 /\ pending = NoBlock /\ last = NoVerify
    /\ outcome = Idle
    /\ \E rewards \in Seqs(RewardEntries, MaxRewardEntries), pool \in Addr \cup {ZeroAddr},
          coinbase \in Addr, number \in 1..MaxRewardNumber :
         /\ subject = [kind |-> "rewards",
                       config |-> [Config EXCEPT !.Rewards = rewards, !.Pool = pool],
                       header |-> [Number |-> number, Coinbase |-> coinbase],
                       bal |-> InitBalances]

AccumulateRewardsCall ==
    /\ subject.kind = "rewards"
    /\ outcome = Idle
    /\ outcome' = [kind |-> "accumulateRewards",
                   blockReward |-> RewardAt(subject.config.Rewards,
                                            subject.header.Number, 0),
                   bal |-> accumulateRewards(subject.config, subject.bal,
                                             subject.header)]
    /\ UNCHANGED <<node, subject>>

NextRewards == AccumulateRewardsCall

SpecRewards == InitRewards /\ [][NextRewards]_vars

\* what the call credited to an account
Credited(a) == outcome.bal[a] - subject.bal[a]

RECURSIVE SumCredited(_)
SumCredited(S) ==
    IF S = {} THEN 0
    ELSE LET a == CHOOSE x \in S : TRUE IN Credited(a) + SumCredited(S \ {a})

\* C17: with a pool address configured the coinbase is credited a tenth of
\* the block reward and the pool the rest; with no pool address (the zero
\* address) the coinbase is credited the whole reward; the credits add up to
\* the block reward.
C17_RewardSplit ==
    (outcome.kind = "accumulateRewards" /\ outcome.blockReward > 0) =>
        LET reward == outcome.blockReward
            coinbase == subject.header.Coinbase
            pool == subject.config.Pool
        IN /\ SumCredited(DOMAIN subject.bal) = reward
           /\ IF pool = ZeroAddr \/ pool = coinbase
              THEN Credited(coinbase) = reward
              ELSE /\ Credited(coinbase) = reward \div 10
                   /\ Credited(pool) = reward - reward \div 10

\* ---- SpecSeal: Seal and the goroutine it starts, with the clock, the stop
\*      channel and the timer of time.After
\* delay := time.Unix(int64(header.Time), 0).Sub(time.Now())
SealDelay(headerTime, now) == headerTime - now

\* what Seal returns for a block on the genesis parent before it starts the
\* goroutine ("nil" when it starts it)
SealResult(header, signFails) ==
    IF header.Number = 0 THEN "errUnknownBlock"
    ELSE IF header.Form = "noVanity" THEN "errMissingVanity"
    ELSE IF header.Form = "noSeal" THEN "errMissingSignature"
    ELSE IF chainConfig(Genesis).err THEN "ErrChainConfigMissing"
    ELSE IF ~inTurn(chainConfig(Genesis).config, Genesis, header.Time, header.Coinbase)
         THEN "errUnauthorized"
    ELSE IF signFails THEN "errSign"
    ELSE "nil"

InitSeal ==
    /\ chain = <<>> /\ db = {} /\ balances = InitBalances
    /\ assembled = 0 /\ txCount = 0 /\ pending = NoBlock /\ last = NoVerify
    /\ outcome = Idle
    /\ \E number \in {0, 1}, time \in Times, coinbase \in Addr,
          form \in {"ok", "noVanity", "noSeal"}, signFails \in BOOLEAN, now \in Times :
         subject = [kind |-> "seal",
                    header |-> [Number |-> number, Time |-> time,
                                Coinbase |-> coinbase, Form |-> form],
                    signFails |-> signFails,
                    clock |-> now,        \* time.Now()
                    pc |-> "idle",        \* where Seal and its goroutine are
                    ret |-> "none",       \* what Seal returned
                    delay |-> 0,
                    deadline |-> 0,       \* when the timer of time.After fires
                    elapsed |-> FALSE,    \* the timer has fired
                    stop |-> FALSE,       \* the stop channel is closed
                    stopAt |-> 0,         \* the time it was closed
                    wake |-> "none",      \* the case that woke the parked select
                    results |-> <<>>]     \* the blocks sent on results

\* Seal up to its return
SealCall ==
    /\ subject.kind = "seal" /\ subject.pc = "idle"
    /\ subject' =
         LET ret == SealResult(subject.header, subject.signFails)
         IN [subject EXCEPT
               !.ret = ret,
               !.pc = IF ret = "nil" THEN "spawned" ELSE "returned",
               !.delay = SealDelay(subject.header.Time, subject.clock)]
    /\ UNCHANGED <<node, outcome>>

\* time passes
Tick ==
    /\ subject.kind = "seal" /\ subject.clock < MaxClock
    /\ subject' = [subject EXCEPT !.clock = @ + 1]
    /\ UNCHANGED <<node, outcome>>

\* the miner closes the stop channel; a select parked on it is woken by it
StopFire ==
    /\ subject.kind = "seal" /\ ~subject.stop
    /\ subject' = [subject EXCEPT
                     !.stop = TRUE,
                     !.stopAt = subject.clock,
                     !.wake = IF subject.pc = "waiting" /\ @ = "none"
                              THEN "stop" ELSE @]
    /\ UNCHANGED <<node, outcome>>

\* the goroutine reaches the first select: time.After(delay) starts the timer;
\* a case that is ready is taken (any of them when both are), otherwise the
\* goroutine parks. A timer of a delay <= 0 may or may not be ready by then.
EnterSelect ==
    /\ subject.kind = "seal" /\ subject.pc = "spawned"
    /\ \E timerReady \in {FALSE, subject.delay <= 0} :
         LET ready == (IF subject.stop THEN {"stop"} ELSE {})
                      \cup (IF timerReady THEN {"timer"} ELSE {})
         IN \E case \in (IF ready = {} THEN {"park"} ELSE ready) :
               subject' = [subject EXCEPT
                             !.deadline = subject.clock + subject.delay,
                             !.elapsed = timerReady,
                             !.pc = CASE case = "stop" -> "done"
                                      [] case = "timer" -> "send"
                                      [] case = "park" -> "waiting"]
    /\ UNCHANGED <<node, outcome>>

\* the timer of time.After fires; a select parked on it is woken by it
TimerFire ==
    /\ subject.kind = "seal" /\ subject.pc = "waiting"
    /\ ~subject.elapsed /\ subject.clock >= subject.deadline
    /\ subject' = [subject EXCEPT
                     !.elapsed = TRUE,
                     !.wake = IF @ = "none" THEN "timer" ELSE @]
    /\ UNCHANGED <<node, outcome>>

\* the woken goroutine leaves the first select
Resume ==
    /\ subject.kind = "seal" /\ subject.pc = "waiting" /\ subject.wake # "none"
    /\ subject' = [subject EXCEPT !.pc = IF subject.wake = "stop" THEN "done"
                                         ELSE "send"]
    /\ UNCHANGED <<node, outcome>>

\* the second select: results <- block when the channel takes it, default
\* otherwise
SendResult ==
    /\ subject.kind = "seal" /\ subject.pc = "send"
    /\ \E taken \in BOOLEAN :
         subject' = [subject EXCEPT
                       !.results = IF taken THEN Append(@, subject.header) ELSE @,
                       !.pc = "done"]
    /\ UNCHANGED <<node, outcome>>

NextSeal ==
    \/ SealCall
    \/ Tick
    \/ StopFire
    \/ EnterSelect
    \/ TimerFire
    \/ Resume
    \/ SendResult

SpecSeal == InitSeal /\ [][NextSeal]_vars

\* Seal returned nil and stop fired before header.Time
StoppedEarly ==
    /\ subject.ret = "nil"
    /\ subject.stop /\ subject.stopAt < subject.header.Time

\* C18: after Seal returned nil the block is sent on results at most once,
\* and not before header.Time; when the stop channel is closed before
\* header.Time nothing is ever sent.
C18_SealSendsOnceAfterWait ==
    subject.kind = "seal" =>
        /\ Len(subject.results) <= 1
        /\ subject.results # <<>> =>
             /\ subject.ret = "nil"
             /\ subject.clock >= subject.header.Time
             /\ subject.results = <<subject.header>>
        /\ StoppedEarly => subject.results = <<>>

\* ============================================================ VerifyHeaders
\* ---- SpecHeaders: VerifyHeaders on a batch of headers, its worker goroutine
\*      and a caller that may close abort at any moment.  A batch entry is a
\*      header with the hash of the header it was built on (the header itself
\*      stands for its hash).
Sealings == {"sealed", "unsigned"}

Sealed(header, sealing) ==
    [header EXCEPT !.Signer = IF sealing = "sealed" THEN header.Coinbase ELSE NoSigner]

\* the block a producer builds on parent (Prepare, FinalizeAndAssemble, Seal)
Produced(parent, parentHash, bal, coinbase, sealing) ==
    LET block(prep, fa) ==
            [err |-> prep.err \/ fa.err,
             entry |-> [header |-> Sealed(fa.header, sealing),
                        ParentHash |-> parentHash],
             bal |-> fa.bal, writes |-> fa.writes]
        prepared(prep) ==
            block(prep, FinalizeAndAssemble(parent, prep.header, bal, <<>>))
    IN prepared(Prepare(parent, parent.Time, coinbase))

\* the blocks of successive producers, plan[k] = <<coinbase, sealing>>
RECURSIVE ProducedChain(_, _, _, _)
ProducedChain(parent, parentHash, bal, plan) ==
    LET joined(b, rest) ==
            [err |-> rest.err, entries |-> <<b.entry>> \o rest.entries,
             writes |-> b.writes \cup rest.writes]
        next(b) ==
            IF b.err THEN [err |-> TRUE, entries |-> <<>>, writes |-> {}]
            ELSE joined(b, ProducedChain(Stored(b.entry.header), b.entry.header,
                                         b.bal, Tail(plan)))
    IN IF plan = <<>> THEN [err |-> FALSE, entries |-> <<>>, writes |-> {}]
       ELSE next(Produced(parent, parentHash, bal, plan[1][1], plan[1][2]))

Plans == [1..MaxHeaders -> Coinbases \X Sealings]

\* the batches made of distinct blocks of the produced chain, in any order
Orders ==
    {o \in UNION {[1..k -> 1..MaxHeaders] : k \in 0..MaxHeaders} :
        \A a, b \in DOMAIN o : a # b => o[a] # o[b]}

InitHeaders ==
    /\ chain = <<>>
    /\ balances = InitBalances
    /\ assembled = 0
    /\ txCount = 0
    /\ pending = NoBlock
    /\ last = NoVerify
    /\ outcome = Idle
    /\ \E plan \in Plans, order \in Orders :
         LET built(pc) ==
                 /\ ~pc.err
                 /\ db = pc.writes
                 /\ subject = [kind |-> "headers",
                               headers |-> [k \in DOMAIN order |-> pc.entries[order[k]]],
                               pc |-> "call", i |-> 0, err |-> "none",
                               now |-> 0, nows |-> <<>>,
                               abort |-> FALSE, results |-> <<>>]
         IN built(ProducedChain(Genesis, Genesis, InitBalances, plan))

\* chain.GetHeader(hash, number) on a chain holding the blocks up to the tip
GetHeader(hash, number) ==
    [nil |-> ~(hash = Tip /\ Tip.Number = number), header |-> Tip, hash |-> Tip]

\* a variant that hands no parents to verifyHeader
parentsNone(headers, i) == <<>>

\* headers[:i] of the worker's loop, i counted from 1 here
parentsBefore(headers, i) == SubSeq(headers, 1, i - 1)

\* the parent verifyCascadingFields takes: the last of parents when there is
\* one, the chain's header for ParentHash otherwise
cascadingParent(entry, parents) ==
    IF Len(parents) > 0
    THEN [nil |-> FALSE, header |-> Stored(parents[Len(parents)].header),
          hash |-> parents[Len(parents)].header]
    ELSE GetHeader(entry.ParentHash, entry.header.Number - 1)

\* e.verifyHeader(chain, header, parents) at clock reading now
verifyHeaderIn(entry, parents, now) ==
    LET against(p) ==
            verifyHeader([entry.header EXCEPT
                            !.Linked = ~p.nil /\ p.hash = entry.ParentHash],
                         p.header, now)
    IN against(cascadingParent(entry, parents))

\* VerifyHeaders: abort and results are made, the goroutine is started
VerifyHeadersCall ==
    /\ subject.kind = "headers"
    /\ subject.pc = "call"
    /\ subject' = [subject EXCEPT !.pc = "loop", !.i = 1]
    /\ UNCHANGED <<node, outcome>>

\* the worker: err := e.verifyHeader(chain, header, headers[:i])
WorkerVerify ==
    /\ subject.kind = "headers"
    /\ subject.pc = "loop"
    /\ subject.i <= Len(subject.headers)
    /\ \E now \in subject.now..MaxTime :
         LET verified(r) ==
                 /\ subject' = [subject EXCEPT !.pc = "select", !.err = r.err,
                                               !.now = now,
                                               !.nows = Append(@, now)]
                 /\ db' = db \cup r.writes
         IN verified(verifyHeaderIn(subject.headers[subject.i],
                                    parentsBefore(subject.headers, subject.i), now))
    /\ UNCHANGED <<chain, balances, assembled, txCount, pending, last, outcome>>

\* the worker: select { case <-abort: return; case results <- err: }; results
\* has room for every header, so the send is always ready
WorkerSelect ==
    /\ subject.kind = "headers"
    /\ subject.pc = "select"
    /\ \E case \in {"send"} \cup (IF subject.abort THEN {"abort"} ELSE {}) :
         subject' = IF case = "abort"
                    THEN [subject EXCEPT !.pc = "done"]
                    ELSE [subject EXCEPT !.pc = "loop", !.i = @ + 1,
                                         !.results = Append(@, subject.err)]
    /\ UNCHANGED <<node, outcome>>

\* the worker: the loop has run over every header
WorkerReturn ==
    /\ subject.kind = "headers"
    /\ subject.pc = "loop"
    /\ subject.i > Len(subject.headers)
    /\ subject' = [subject EXCEPT !.pc = "done"]
    /\ UNCHANGED <<node, outcome>>

\* the caller: close(abort)
Abort ==
    /\ subject.kind = "headers"
    /\ subject.pc # "call"
    /\ ~subject.abort
    /\ subject' = [subject EXCEPT !.abort = TRUE]
    /\ UNCHANGED <<node, outcome>>

NextHeaders ==
    \/ VerifyHeadersCall
    \/ WorkerVerify
    \/ WorkerSelect
    \/ WorkerReturn
    \/ Abort

\* WorkerVerify is enabled exactly when the loop has a header left
CanVerify ==
    /\ subject.kind = "headers"
    /\ subject.pc = "loop"
    /\ subject.i <= Len(subject.headers)

\* the goroutine is scheduled as long as it can run: weak fairness of each of
\* its steps (that of WorkerVerify with its enabling condition written out)
SpecHeaders ==
    /\ InitHeaders
    /\ [][NextHeaders]_vars
    /\ WF_vars(VerifyHeadersCall)
    /\ ([]<>~CanVerify \/ []<><<WorkerVerify>>_vars)
    /\ WF_vars(WorkerSelect)
    /\ WF_vars(WorkerReturn)

\* the outcome of headers[k] verified at clock reading now, headers[k-1]
\* being its parent when k > 1
OutcomeInOrder(headers, k, now) ==
    IF k > 1
    THEN verifyHeader([headers[k].header EXCEPT
                         !.Linked = headers[k].ParentHash = headers[k - 1].header],
                      Stored(headers[k - 1].header), now).err
    ELSE verifyHeader([headers[k].header EXCEPT
                         !.Linked = headers[k].ParentHash = Genesis
                                    /\ headers[k].header.Number = 1],
                      Genesis, now).err

ResultsInOrder ==
    subject.kind = "headers" =>
        /\ Len(subject.results) <= Len(subject.headers)
        /\ \A k \in 1..Len(subject.results) :
             subject.results[k] = OutcomeInOrder(subject.headers, k, subject.nows[k])
        /\ (subject.pc = "done" /\ ~subject.abort) =>
             Len(subject.results) = Len(subject.headers)

\* C19: while abort is not signalled the results on the channel are the
\* outcomes of headers[1], headers[2], ... in input order, each header after
\* the first verified against the header before it in the batch; the worker
\* terminates, and has then sent exactly len(headers) results.
C19_ResultsInInputOrder ==
    /\ []ResultsInOrder
    /\ <>(subject.abort \/ subject.pc = "done")

\* a batch of MaxHeaders headers was delivered whole, the last of them accepted
\* on the header before it and another one rejected
C19_Witness ==
    /\ subject.kind = "headers"
    /\ subject.pc = "done"
    /\ ~subject.abort
    /\ Len(subject.headers) = MaxHeaders
    /\ Len(subject.results) = MaxHeaders
    /\ subject.results[MaxHeaders] = "ok"
    /\ \E k \in 1..MaxHeaders - 1 : subject.results[k] # "ok"

\* C20: after abort was signalled the worker starts no verification and
\* sends no result.
C20_AbortStopsWorker ==
    [][(subject.kind = "headers" /\ subject.abort) =>
          /\ subject'.nows = subject.nows
          /\ subject'.results = subject.results]_vars

\* ================================================================= Finalize
\* HeaderExtra.Equal: the fields it compares (CurrentBlockCancelCandidates is
\* not among them)
Equal(headerExtra, other) ==
    /\ headerExtra.Root = other.Root
    /\ headerExtra.Epoch = other.Epoch
    /\ headerExtra.EpochBlock = other.EpochBlock
    /\ headerExtra.ChainConfig = other.ChainConfig
    /\ headerExtra.CurrentBlockCandidates = other.CurrentBlockCandidates
    /\ headerExtra.CurrentBlockKickOutCandidates = other.CurrentBlockKickOutCandidates
    /\ headerExtra.CurrentEpochValidators = other.CurrentEpochValidators

\* decodeHeaderExtra fails on an extra without vanity or seal, or with bytes
\* NewHeaderExtra cannot read
Undecodable(header) == header.Form \in {"noVanity", "noSeal", "garbled"}

\* Finalize on a received block: panic tells whether it ended in panic(err)
Finalize(parent, header, bal, txs) ==
    LET headerExtra == header.Extra
        snap == IF header.Number <= 1 THEN newSnapshot ELSE loadSnapshot(parent.Root)
        temp == HeaderExtra(headerExtra.Epoch, headerExtra.EpochBlock, headerExtra.Root)
        elected(pt, te) ==
            [panic |-> te.err \/ ~Equal(te.hx, headerExtra), bal |-> pt.bal]
        processed(config, pt) ==
            elected(pt, tryElect(config, header, parent, pt.snap, pt.hx))
        configured(cc) ==
            IF cc.err THEN [panic |-> TRUE, bal |-> bal]
            ELSE processed(cc.config,
                   processTransactions(cc.config,
                                       accumulateRewards(cc.config, bal, header),
                                       header, snap, temp, txs))
    IN IF Undecodable(header) THEN [panic |-> TRUE, bal |-> bal]
       ELSE configured(chainConfig(parent))

\* ---- SpecReceive: a producer's blocks handed to Finalize by the block
\*      processor, as produced or altered on the way
Alterations == {"none", "garbled", "noSeal", "candidates", "epoch", "txs"}

Altered(header, alteration) ==
    CASE alteration = "garbled" -> [header EXCEPT !.Form = "garbled"]
      [] alteration = "noSeal" -> [header EXCEPT !.Form = "noSeal"]
      [] alteration = "candidates" ->
           [header EXCEPT !.Extra.CurrentBlockCandidates = Append(@, 3)]
      [] alteration = "epoch" -> [header EXCEPT !.Extra.Epoch = @ + 1]
      [] OTHER -> header

InitReceive ==
    /\ chain = <<>> /\ db = {} /\ balances = InitBalances
    /\ assembled = 0 /\ txCount = 0 /\ pending = NoBlock /\ last = NoVerify
    /\ outcome = Idle
    /\ subject = [kind |-> "receive", parent |-> Genesis, bal |-> InitBalances,
                  txs |-> 0]

\* the block FinalizeAndAssemble produced on subject.parent reaches Finalize
\* with the given alteration ("txs": a candidate transaction of address 3 is
\* added to the body); an unaltered block that Finalize passes becomes the
\* parent, any other block is the last one the processor takes
FinalizeReceived(coinbase, txs, alteration) ==
    LET parent == subject.parent
        received(fa, r) ==
            /\ outcome' = [kind |-> "receive", alteration |-> alteration,
                           header |-> fa.header, txs |-> txs, panic |-> r.panic,
                           bal |-> r.bal, produced |-> fa.bal]
            /\ db' = db \cup fa.writes
            /\ subject' =
                 IF alteration = "none" /\ ~r.panic
                 THEN [subject EXCEPT !.parent = Stored(fa.header), !.bal = r.bal,
                                      !.txs = @ + Len(txs)]
                 ELSE subject
        produced(fa) ==
            /\ ~fa.err
            /\ received(fa, Finalize(parent, Altered(fa.header, alteration),
                                     subject.bal,
                                     IF alteration = "txs"
                                     THEN Append(txs, <<"candidate", 3>>) ELSE txs))
        prepared(prep) ==
            /\ ~prep.err
            /\ produced(FinalizeAndAssemble(parent, prep.header, subject.bal, txs))
    IN /\ subject.kind = "receive"
       /\ parent.Number < MaxReceiveBlocks
       /\ IF outcome = Idle THEN TRUE
          ELSE outcome.alteration = "none" /\ ~outcome.panic
       /\ prepared(Prepare(parent, parent.Time, coinbase))
       /\ UNCHANGED <<chain, balances, assembled, txCount, pending, last>>

NextReceive ==
    \E coinbase \in Coinbases, txs \in TxLists(MaxReceiveTxs - subject.txs),
       alteration \in Alterations :
        FinalizeReceived(coinbase, txs, alteration)

SpecReceive == InitReceive /\ [][NextReceive]_vars

Received == outcome.kind = "receive"

\* C21: Finalize ends without a panic whatever block it is given, one whose
\* extra cannot be decoded or whose HeaderExtra differs from the recomputed one
\* included.
C21_FinalizeNeverPanics == Received => ~outcome.panic

\* Finalize passes the block FinalizeAndAssemble produced, with its balances
FinalizePassesOwnBlock ==
    (Received /\ outcome.alteration = "none") =>
        ~outcome.panic /\ outcome.bal = outcome.produced

\* ======================================================= senate: delegation
\* The senate Snapshot's candidate, delegate and vote tries: candidateTrie is
\* the set of its keys, delegateTrie the set of its keys <<candidate,
\* delegator>> (the value is the delegator), voteTrie the function
\* delegator -> candidate.
senateNewSnapshot ==
    [candidateTrie |-> {}, delegateTrie |-> {}, voteTrie |-> EmptyFcn]

\* senate Snapshot.BecomeCandidate
senateBecomeCandidate(snap, candidateAddr) ==
    [err |-> FALSE,
     snap |-> [snap EXCEPT !.candidateTrie = @ \cup {candidateAddr}]]

\* the loop of KickOutCandidate over the delegators the iterator yields
RECURSIVE KickOutDelegators(_, _, _)
KickOutDelegators(snap, candidate, delegators) ==
    IF delegators = <<>> THEN snap
    ELSE LET delegator == Head(delegators)
             voted == delegator \in DOMAIN snap.voteTrie
                      /\ snap.voteTrie[delegator] = candidate
         IN KickOutDelegators(
              [snap EXCEPT !.delegateTrie = @ \ {<<candidate, delegator>>},
                           !.voteTrie = IF voted THEN FcnDel(@, delegator) ELSE @],
              candidate, Tail(delegators))

\* senate Snapshot.KickOutCandidate
KickOutCandidate(snap, candidateAddr) ==
    [err |-> FALSE,
     snap |-> KickOutDelegators(
                [snap EXCEPT !.candidateTrie = @ \ {candidateAddr}],
                candidateAddr,
                SortedSeq({k[2] : k \in {e \in snap.delegateTrie :
                                           e[1] = candidateAddr}}))]

\* a variant that leaves the delegate entry of the old vote in place
DelegateKeepOld(snap, delegatorAddr, candidateAddr) ==
    IF candidateAddr \notin snap.candidateTrie THEN [err |-> TRUE, snap |-> snap]
    ELSE [err |-> FALSE,
          snap |-> [snap EXCEPT
                      !.delegateTrie = @ \cup {<<candidateAddr, delegatorAddr>>},
                      !.voteTrie = FcnPut(@, delegatorAddr, candidateAddr)]]

\* senate Snapshot.Delegate
Delegate(snap, delegatorAddr, candidateAddr) ==
    IF candidateAddr \notin snap.candidateTrie THEN [err |-> TRUE, snap |-> snap]
    ELSE LET old == IF delegatorAddr \in DOMAIN snap.voteTrie
                    THEN {<<snap.voteTrie[delegatorAddr], delegatorAddr>>} ELSE {}
         IN [err |-> FALSE,
             snap |-> [snap EXCEPT
                         !.delegateTrie = (@ \ old)
                                          \cup {<<candidateAddr, delegatorAddr>>},
                         !.voteTrie = FcnPut(@, delegatorAddr, candidateAddr)]]

\* senate Snapshot.UnDelegate
UnDelegate(snap, delegatorAddr, candidateAddr) ==
    IF candidateAddr \notin snap.candidateTrie THEN [err |-> TRUE, snap |-> snap]
    ELSE IF delegatorAddr \notin DOMAIN snap.voteTrie
            \/ snap.voteTrie[delegatorAddr] # candidateAddr
         THEN [err |-> TRUE, snap |-> snap]
    ELSE [err |-> FALSE,
          snap |-> [snap EXCEPT
                      !.delegateTrie = @ \ {<<candidateAddr, delegatorAddr>>},
                      !.voteTrie = FcnDel(@, delegatorAddr)]]

\* ---- SpecSenate: any sequence of the four calls on a new snapshot
InitSenate ==
    /\ chain = <<>> /\ db = {} /\ balances = InitBalances
    /\ assembled = 0 /\ txCount = 0 /\ pending = NoBlock /\ last = NoVerify
    /\ outcome = Idle
    /\ subject = [kind |-> "senate", snap |-> senateNewSnapshot]

SenateCall(op, r, a, b) ==
    /\ subject.kind = "senate"
    /\ subject' = [subject EXCEPT !.snap = r.snap]
    /\ outcome' = [kind |-> "senate", op |-> op, err |-> r.err, a |-> a, b |-> b,
                   before |-> subject.snap]
    /\ UNCHANGED node

SenateBecomeCandidateCall ==
    \E c \in Addr : SenateCall("BecomeCandidate",
                               senateBecomeCandidate(subject.snap, c), c, c)

KickOutCandidateCall ==
    \E c \in Addr : SenateCall("KickOutCandidate",
                               KickOutCandidate(subject.snap, c), c, c)

DelegateCall ==
    \E d \in Addr, c \in Addr :
        SenateCall("Delegate", Delegate(subject.snap, d, c), d, c)

UnDelegateCall ==
    \E d \in Addr, c \in Addr :
        SenateCall("UnDelegate", UnDelegate(subject.snap, d, c), d, c)

NextSenate ==
    \/ SenateBecomeCandidateCall
    \/ KickOutCandidateCall
    \/ DelegateCall
    \/ UnDelegateCall

SpecSenate == InitSenate /\ [][NextSenate]_vars

\* C22: the delegate and vote tables agree: <<c, d>> is a delegate entry
\* exactly when vote[d] = c; hence a delegator has at most one delegate entry,
\* and no delegate entry names an address that is not a candidate.
C22_DelegateVoteInSync ==
    subject.kind = "senate" =>
        LET snap == subject.snap
        IN /\ \A c \in Addr, d \in Addr :
                <<c, d>> \in snap.delegateTrie <=>
                    (d \in DOMAIN snap.voteTrie /\ snap.voteTrie[d] = c)
           /\ \A d \in Addr :
                Cardinality({e \in snap.delegateTrie : e[2] = d}) <= 1
           /\ \A e \in snap.delegateTrie : e[1] \in snap.candidateTrie

\* a candidate with two delegators was kicked out while the vote a third
\* delegator had moved to another candidate stays
C22_Witness ==
    /\ subject.kind = "senate"
    /\ outcome.kind = "senate"
    /\ outcome.op = "KickOutCandidate"
    /\ Cardinality({e \in outcome.before.delegateTrie : e[1] = outcome.a}) = 2
    /\ subject.snap.delegateTrie # {}
    /\ subject.snap.voteTrie # EmptyFcn

\* ======================================================= HeaderExtra codec
\* The HeaderExtra struct as the codec sees it: the hashes of Root are their
\* digests (numbers of HashLength bytes), a validator is [Address, Weight].
UintItem(n) == Str(BigEndian(n))

HashItem(h) == Str(Padded(BigEndian(h), HashLength))

IsHashItem(item) == item.k = "s" /\ Len(item.b) = HashLength

RootItem(root) ==
    List(<<HashItem(root.EpochHash), HashItem(root.CandidateHash),
           HashItem(root.MintCntHash), HashItem(root.ConfigHash)>>)

RewardItem(r) == List(<<UintItem(r.Number), UintItem(r.Reward)>>)

ConfigItem(c) ==
    List(<<UintItem(c.Period), UintItem(c.Epoch), UintItem(c.MaxValidatorsCount),
           UintItem(c.MinCandidateBalance), UintItem(c.GenesisTimestamp),
           AddressListItem(c.Validators), AddressItem(c.Pool),
           List([i \in DOMAIN c.Rewards |-> RewardItem(c.Rewards[i])])>>)

SortableAddressItem(v) == List(<<AddressItem(v.Address), UintItem(v.Weight)>>)

HeaderExtraItem(x) ==
    List(<<RootItem(x.Root), UintItem(x.Epoch), UintItem(x.EpochBlock),
           List([i \in DOMAIN x.ChainConfig |-> ConfigItem(x.ChainConfig[i])]),
           AddressListItem(x.CurrentBlockCandidates),
           AddressListItem(x.CurrentBlockKickOutCandidates),
           List([i \in DOMAIN x.CurrentEpochValidators |->
                   SortableAddressItem(x.CurrentEpochValidators[i])])>>)

\* decoding into the struct types: the item has the type's shape
IsBigIntItem(item) == item.k = "s" /\ (item.b = <<>> \/ item.b[1] # 0)

IsRootItem(item) ==
    item.k = "l" /\ Len(item.v) = 4 /\ \A i \in 1..4 : IsHashItem(item.v[i])

IsRewardItem(item) ==
    item.k = "l" /\ Len(item.v) = 2 /\ IsUintItem(item.v[1]) /\ IsBigIntItem(item.v[2])

IsConfigItem(item) ==
    /\ item.k = "l" /\ Len(item.v) = 8
    /\ IsUintItem(item.v[1]) /\ IsUintItem(item.v[2]) /\ IsUintItem(item.v[3])
    /\ IsBigIntItem(item.v[4]) /\ IsUintItem(item.v[5])
    /\ IsAddressList(item.v[6]) /\ IsAddressItem(item.v[7])
    /\ item.v[8].k = "l" /\ \A i \in DOMAIN item.v[8].v : IsRewardItem(item.v[8].v[i])

IsSortableAddressItem(item) ==
    item.k = "l" /\ Len(item.v) = 2 /\ IsAddressItem(item.v[1]) /\ IsBigIntItem(item.v[2])

IsHeaderExtraItem(item) ==
    /\ item.k = "l" /\ Len(item.v) = 7
    /\ IsRootItem(item.v[1]) /\ IsUintItem(item.v[2]) /\ IsUintItem(item.v[3])
    /\ item.v[4].k = "l" /\ \A i \in DOMAIN item.v[4].v : IsConfigItem(item.v[4].v[i])
    /\ IsAddressList(item.v[5]) /\ IsAddressList(item.v[6])
    /\ item.v[7].k = "l"
    /\ \A i \in DOMAIN item.v[7].v : IsSortableAddressItem(item.v[7].v[i])

ConfigOf(item) ==
    [Period |-> FromBigEndian(item.v[1].b), Epoch |-> FromBigEndian(item.v[2].b),
     MaxValidatorsCount |-> FromBigEndian(item.v[3].b),
     MinCandidateBalance |-> FromBigEndian(item.v[4].b),
     GenesisTimestamp |-> FromBigEndian(item.v[5].b),
     Validators |-> AddressesOf(item.v[6]),
     Pool |-> FromBigEndian(item.v[7].b),
     Rewards |-> [i \in DOMAIN item.v[8].v |->
                    [Number |-> FromBigEndian(item.v[8].v[i].v[1].b),
                     Reward |-> FromBigEndian(item.v[8].v[i].v[2].b)]]]

HeaderExtraOf(item) ==
    [Root |-> [EpochHash |-> FromBigEndian(item.v[1].v[1].b),
               CandidateHash |-> FromBigEndian(item.v[1].v[2].b),
               MintCntHash |-> FromBigEndian(item.v[1].v[3].b),
               ConfigHash |-> FromBigEndian(item.v[1].v[4].b)],
     Epoch |-> FromBigEndian(item.v[2].b),
     EpochBlock |-> FromBigEndian(item.v[3].b),
     ChainConfig |-> [i \in DOMAIN item.v[4].v |-> ConfigOf(item.v[4].v[i])],
     CurrentBlockCandidates |-> AddressesOf(item.v[5]),
     CurrentBlockKickOutCandidates |-> AddressesOf(item.v[6]),
     CurrentEpochValidators |->
        [i \in DOMAIN item.v[7].v |->
           [Address |-> FromBigEndian(item.v[7].v[i].v[1].b),
            Weight |-> FromBigEndian(item.v[7].v[i].v[2].b)]]]

\* gzip: the member header, the data and the trailer with its checksum
RECURSIVE Checksum(_)
Checksum(data) == IF data = <<>> THEN 0 ELSE (Head(data) + Checksum(Tail(data))) % 256

GzipHeader == <<31, 139>>

gzipWrite(data) == GzipHeader \o data \o <<Checksum(data)>>

\* gzip.NewReader: err without a member header; data is what Read will
\* deliver, sound tells whether the trailer matches it
gzipNewReader(data) ==
    IF Len(data) < 3 \/ SubSeq(data, 1, 2) # GzipHeader
    THEN [err |-> TRUE, data |-> <<>>, sound |-> FALSE]
    ELSE [err |-> FALSE, data |-> SubSeq(data, 3, Len(data) - 1),
          sound |-> data[Len(data)] = Checksum(SubSeq(data, 3, Len(data) - 1))]

\* HeaderExtra.Encode
Encode(headerExtra) == gzipWrite(rlpEncode(HeaderExtraItem(headerExtra)))

\* a variant of the read loop that looks at err before it keeps the bytes
RECURSIVE readLoopErrFirst(_, _, _, _, _)
readLoopErrFirst(remaining, sound, buffer, chunk, eofWithData) ==
    LET n == Min(Min(128, chunk), Len(remaining))
        atEnd == n = Len(remaining)
    IN IF atEnd /\ (eofWithData \/ n = 0)
       THEN [err |-> ~sound, data |-> buffer]
       ELSE readLoopErrFirst(SubSeq(remaining, n + 1, Len(remaining)), sound,
                             buffer \o SubSeq(remaining, 1, n), chunk, eofWithData)

\* the loop of NewHeaderExtra: Read into temp[128], keep the n bytes read,
\* stop at io.EOF, fail on any other error.  A Read delivers at most chunk
\* bytes; io.EOF comes with the last bytes (eofWithData) or by itself.
RECURSIVE readLoop(_, _, _, _, _)
readLoop(remaining, sound, buffer, chunk, eofWithData) ==
    LET n == Min(Min(128, chunk), Len(remaining))
        atEnd == n = Len(remaining)
    IN IF atEnd /\ (eofWithData \/ n = 0)
       THEN [err |-> ~sound, data |-> buffer \o SubSeq(remaining, 1, n)]
       ELSE readLoop(SubSeq(remaining, n + 1, Len(remaining)), sound,
                     buffer \o SubSeq(remaining, 1, n), chunk, eofWithData)

NoHeaderExtra == [err |-> TRUE]

\* NewHeaderExtra
NewHeaderExtra(data, chunk, eofWithData) ==
    LET decoded(d) ==
            IF d.err \/ ~IsHeaderExtraItem(d.item) THEN NoHeaderExtra
            ELSE [err |-> FALSE, headerExtra |-> HeaderExtraOf(d.item)]
        read(buffer) ==
            IF buffer.err THEN NoHeaderExtra ELSE decoded(rlpDecode(buffer.data))
        opened(r) ==
            IF r.err THEN NoHeaderExtra
            ELSE read(readLoop(r.data, r.sound, <<>>, chunk, eofWithData))
    IN opened(gzipNewReader(data))

\* ---- SpecCodec: Encode and NewHeaderExtra on the HeaderExtra values the
\*      engine builds, and NewHeaderExtra on damaged bytes
Digests == {0, 1, 300}

CodecRoots ==
    {[EpochHash |-> e, CandidateHash |-> c, MintCntHash |-> 0, ConfigHash |-> g] :
        e \in Digests, c \in {300}, g \in {1}}

CodecConfigs ==
    {<<>>, <<Config>>,
     <<[Config EXCEPT !.Pool = 3, !.MinCandidateBalance = 1000,
                      !.Rewards = <<[Number |-> 200, Reward |-> 0],
                                    [Number |-> 70000, Reward |-> 128]>>]>>}

HeaderExtras ==
    [Root : CodecRoots, Epoch : {0, 300}, EpochBlock : {1, 128},
     ChainConfig : CodecConfigs,
     CurrentBlockCandidates : Seqs(Addr, MaxCodecList),
     CurrentBlockKickOutCandidates : {<<>>, <<2>>},
     CurrentEpochValidators :
        {<<>>, <<[Address |-> 3, Weight |-> 0]>>,
         <<[Address |-> 1, Weight |-> 200], [Address |-> 2, Weight |-> 1]>>}]

InitCodec ==
    /\ chain = <<>> /\ db = {} /\ balances = InitBalances
    /\ assembled = 0 /\ txCount = 0 /\ pending = NoBlock /\ last = NoVerify
    /\ outcome = Idle
    /\ \E x \in HeaderExtras :
         subject = [kind |-> "codec", x |-> x, data |-> <<>>, pc |-> "new"]

EncodeCall ==
    /\ subject.kind = "codec"
    /\ subject.pc = "new"
    /\ subject' = [subject EXCEPT !.data = Encode(subject.x), !.pc = "encoded"]
    /\ UNCHANGED <<node, outcome>>

\* the bytes lose their end on the way
Truncate ==
    /\ subject.kind = "codec"
    /\ subject.pc = "encoded"
    /\ \E n \in 1..MaxChunk :
         subject' = [subject EXCEPT !.data = SubSeq(@, 1, Len(@) - n),
                                    !.pc = "damaged"]
    /\ UNCHANGED <<node, outcome>>

NewHeaderExtraCall ==
    /\ subject.kind = "codec"
    /\ subject.pc \in {"encoded", "damaged"}
    /\ \E chunk \in 1..MaxChunk, eofWithData \in BOOLEAN :
         LET decoded(r) ==
                 /\ outcome' = [kind |-> "codec", chunk |-> chunk, r |-> r,
                                eofWithData |-> eofWithData]
                 /\ subject' = [subject EXCEPT
                                  !.pc = IF @ = "encoded" THEN "decoded" ELSE "refused"]
         IN decoded(NewHeaderExtra(subject.data, chunk, eofWithData))
    /\ UNCHANGED node

NextCodec ==
    \/ EncodeCall
    \/ Truncate
    \/ NewHeaderExtraCall

SpecCodec == InitCodec /\ [][NextCodec]_vars

\* C23: NewHeaderExtra of the bytes of Encode returns, without error, the
\* HeaderExtra that was encoded: the same root, epoch fields and lists.
C23_CodecRoundTrip ==
    (subject.kind = "codec" /\ subject.pc = "decoded") =>
        /\ ~outcome.r.err
        /\ outcome.r.headerExtra = subject.x

\* a HeaderExtra with a chain config, two candidates and two validators came
\* back from bytes read in several chunks, io.EOF arriving with the last one
C23_Witness ==
    /\ subject.kind = "codec" /\ subject.pc = "decoded"
    /\ outcome.eofWithData /\ outcome.chunk > 1
    /\ Len(subject.data) > 55
    /\ ~outcome.r.err
    /\ Len(outcome.r.headerExtra.ChainConfig) = 1
    /\ Len(outcome.r.headerExtra.CurrentBlockCandidates) = 2
    /\ Len(outcome.r.headerExtra.CurrentEpochValidators) = 2
    /\ outcome.r.headerExtra.Epoch = 300

\* ---- SpecValidators: SetValidators, GetValidators, Root, Commit and
\*      loadSnapshot on one database, as TestSetValidators / TestLoadSnapshot
ValidatorLists == Seqs(Addr, MaxStoredValidators)

NoList == [set |-> FALSE, list |-> <<>>]

InitValidators ==
    /\ chain = <<>> /\ db = {} /\ balances = InitBalances
    /\ assembled = 0 /\ txCount = 0 /\ pending = NoBlock /\ last = NoVerify
    /\ outcome = Idle
    /\ subject = [kind |-> "validators", snap |-> newSnapshot, written |-> NoList,
                  hasRoot |-> FALSE, root |-> ZeroRoot, rootList |-> NoList,
                  committed |-> FALSE, commits |-> 0, sets |-> 0]

SetValidatorsCall ==
    /\ subject.kind = "validators"
    /\ subject.sets < MaxSets
    /\ \E validators \in ValidatorLists :
         subject' = [subject EXCEPT !.snap = SetValidators(@, validators),
                                    !.written = [set |-> TRUE, list |-> validators],
                                    !.sets = @ + 1]
    /\ outcome' = Idle
    /\ UNCHANGED node

GetValidatorsCall ==
    /\ subject.kind = "validators"
    /\ LET got(r) ==
               /\ outcome' = [kind |-> "validators", err |-> r.err,
                              validators |-> r.validators]
               /\ subject' = [subject EXCEPT !.snap = r.snap]
       IN got(GetValidators(subject.snap))
    /\ UNCHANGED node

\* root, err := snap.Root()
RootCall ==
    /\ subject.kind = "validators"
    /\ subject' = [subject EXCEPT !.hasRoot = TRUE, !.root = SnapRoot(subject.snap),
                                  !.rootList = subject.written, !.committed = FALSE]
    /\ outcome' = Idle
    /\ UNCHANGED node

\* snap.Commit(root) with the root last returned by Root
CommitCall ==
    /\ subject.kind = "validators"
    /\ subject.hasRoot
    /\ subject.commits < MaxCommits
    /\ db' = db \cup CommitWrites(subject.snap, subject.root)
    /\ subject' = [subject EXCEPT !.snap.root = subject.root, !.committed = TRUE,
                                  !.commits = @ + 1]
    /\ outcome' = Idle
    /\ UNCHANGED <<chain, balances, assembled, txCount, pending, last>>

\* loadSnapshot(db, root) of the committed root
LoadSnapshotCall ==
    /\ subject.kind = "validators"
    /\ subject.committed
    /\ subject' = [subject EXCEPT !.snap = loadSnapshot(subject.root),
                                  !.written = subject.rootList]
    /\ outcome' = Idle
    /\ UNCHANGED node

NextValidators ==
    \/ SetValidatorsCall
    \/ GetValidatorsCall
    \/ RootCall
    \/ CommitCall
    \/ LoadSnapshotCall

SpecValidators == InitValidators /\ [][NextValidators]_vars

\* C24: GetValidators returns, without error, the list last given to
\* SetValidators, element by element in the same order; the same holds after
\* Root, Commit(root) and loadSnapshot of the committed root.
C24_ValidatorsRoundTrip ==
    (outcome.kind = "validators" /\ subject.written.set) =>
        /\ ~outcome.err
        /\ outcome.validators = subject.written.list

\* a list out of address order, written over an earlier one, committed and
\* read back from a snapshot loaded from the committed root
C24_Witness ==
    /\ outcome.kind = "validators" /\ ~outcome.err
    /\ outcome.validators = <<3, 1>>
    /\ subject.committed /\ subject.rootList.list = <<3, 1>>
    /\ subject.snap.root = subject.root
    /\ <<"epoch", subject.root.EpochHash>> \in db
    /\ Cardinality(db) > 1

\* ---- SpecEpoch: a chain whose headers are all made by Prepare, under an
\*      engine config with Epoch = E that block 1 writes to the config trie
EpochConfig(E) == [Config EXCEPT !.Epoch = E]

InitEpoch ==
    /\ chain = <<>> /\ db = {} /\ balances = InitBalances
    /\ assembled = 0 /\ txCount = 0 /\ pending = NoBlock /\ last = NoVerify
    /\ outcome = Idle
    /\ \E E \in 1..MaxEpoch :
         subject = [kind |-> "epoch", E |-> E, parent |-> Genesis, pairs |-> <<>>]

\* Prepare on the tip; the block keeps the epoch markers Prepare gave it, and
\* block 1 stores the chain config (tryElect)
PrepareCall ==
    /\ subject.kind = "epoch"
    /\ Len(subject.pairs) < MaxEpochBlocks
    /\ \E now \in {subject.parent.Time, subject.parent.Time + 2}, coinbase \in Addr :
         LET stored(header) ==
                 IF header.Number <= 1
                 THEN [Stored(header) EXCEPT
                         !.Root = SnapRoot(SetChainConfig(loadSnapshot(header.Extra.Root),
                                                          EpochConfig(subject.E)))]
                 ELSE Stored(header)
             prepared(prep) ==
                 /\ ~prep.err
                 /\ subject' = [subject EXCEPT
                                  !.parent = stored(prep.header),
                                  !.pairs = Append(@, <<prep.header.Extra.Epoch,
                                                        prep.header.Extra.EpochBlock>>)]
         IN prepared(Prepare(subject.parent, now, coinbase))
    /\ UNCHANGED <<node, outcome>>

NextEpoch == PrepareCall

SpecEpoch == InitEpoch /\ [][NextEpoch]_vars

\* C25: in a chain of headers made by Prepare under a constant config with
\* Epoch = E >= 1, block 1 has (Epoch, EpochBlock) = (1, 1); a later block
\* has (parent.Epoch + 1, number) exactly when number - parent.EpochBlock = E
\* and the parent's pair otherwise; so 0 <= number - EpochBlock < E in every
\* block and every epoch spans exactly E blocks.
C25_PrepareEpochSchedule ==
    subject.kind = "epoch" =>
        \A n \in DOMAIN subject.pairs :
            LET pair == subject.pairs[n]
                prev == subject.pairs[n - 1]
            IN /\ (n = 1) => pair = <<1, 1>>
               /\ (n > 1) =>
                    pair = IF n - prev[2] = subject.E THEN <<prev[1] + 1, n>> ELSE prev
               /\ 0 <= n - pair[2] /\ n - pair[2] < subject.E
               /\ pair[2] = (pair[1] - 1) * subject.E + 1

\* seven blocks with E = 3: the seventh opens the third epoch
C25_Witness ==
    /\ subject.kind = "epoch" /\ subject.E = 3
    /\ Len(subject.pairs) = 7
    /\ subject.pairs[6] = <<2, 4>>
    /\ subject.pairs[7] = <<3, 7>>

\* C26: a header that verifyHeader accepts on a parent other than genesis opens
\* a new epoch, (parent.Epoch + 1, number), exactly when
\* number - parent.EpochBlock equals the Epoch of the chain config, and keeps
\* the parent's (Epoch, EpochBlock) otherwise.
C26_AcceptedEpochOnSchedule ==
    (Verified /\ last.err = "ok" /\ last.parent.Number > 0) =>
        LET number == last.header.Number
            parent == last.parent
            headerExtra == last.header.Extra
            config == chainConfigByHash(parent.Root.ConfigHash).config
        IN IF number - parent.EpochBlock = config.Epoch
           THEN headerExtra.Epoch = parent.Epoch + 1 /\ headerExtra.EpochBlock = number
           ELSE headerExtra.Epoch = parent.Epoch
                /\ headerExtra.EpochBlock = parent.EpochBlock

\* ---- SpecElect: tryElect on the snapshot of an epoch's last block (the
\*      candidates, the validators elected for the epoch and what each of them
\*      minted), and on the snapshot of block 1
ElectAddr == 1..MaxElectAddr

ElectMintCounts == (0..MaxMinted) \ {1}

ElectConfigs ==
    {[Config EXCEPT !.Epoch = 30, !.MaxValidatorsCount = 3],
     [Config EXCEPT !.Epoch = 6, !.MaxValidatorsCount = 3],
     [Config EXCEPT !.Epoch = 6, !.MaxValidatorsCount = 1]}

DistinctLists(S, n) == {l \in Seqs(S, n) : Cardinality(Range(l)) = Len(l)}

RECURSIVE MintedBy(_, _, _, _)
MintedBy(snap, validator, count, next) ==
    IF count = 0 THEN snap
    ELSE MintedBy(MintBlock(snap, 1, next, validator), validator, count - 1, next + 1)

RECURSIVE MintedAll(_, _, _, _)
MintedAll(snap, validators, counts, next) ==
    IF validators = <<>> THEN snap
    ELSE MintedAll(MintedBy(snap, Head(validators), Head(counts), next),
                   Tail(validators), Tail(counts), next + Head(counts))

\* the snapshot at the end of epoch 1
ElectSnapshot(candidates, validators, counts) ==
    MintedAll(SetValidators(ApplyCandidates(newSnapshot, SortedSeq(candidates), 1, 0),
                            validators),
              validators, counts, 1)

InitElect ==
    /\ chain = <<>> /\ db = {} /\ balances = InitBalances
    /\ assembled = 0 /\ txCount = 0 /\ pending = NoBlock /\ last = NoVerify
    /\ outcome = Idle
    /\ \E config \in ElectConfigs, candidates \in SUBSET ElectAddr :
         \/ subject = [kind |-> "elect", first |-> TRUE, config |-> config,
                       snap |-> ApplyCandidates(newSnapshot, SortedSeq(candidates), 1,
                                                config.MinCandidateBalance)]
         \/ \E validators \in DistinctLists(1..MaxElectValidators,
                                            config.MaxValidatorsCount) :
              \E counts \in [1..Len(validators) -> ElectMintCounts] :
                 subject = [kind |-> "elect", first |-> FALSE, config |-> config,
                            snap |-> ElectSnapshot(candidates, validators, counts)]

StoredValidators(snap) ==
    LET stored(gv) == [err |-> gv.err, validators |-> gv.validators]
    IN stored(GetValidators(snap))

\* tryElect as FinalizeAndAssemble calls it, after MintBlock, for block 1, for
\* the first block of epoch 2, or (inside) for the block after that
TryElectCall ==
    /\ subject.kind = "elect"
    /\ outcome = Idle
    /\ \E parentTime \in 0..1, inside \in BOOLEAN :
         LET config == subject.config
             epochBlock == IF subject.first THEN 1 ELSE config.Epoch + 1
             number == IF inside THEN epochBlock + 1 ELSE epochBlock
             epoch == IF subject.first THEN 1 ELSE 2
             parent == [Genesis EXCEPT !.Number = number - 1, !.Time = parentTime]
             elected(snap, te) ==
                 outcome' = [kind |-> "elect", number |-> number,
                             epochBlock |-> epochBlock, seed |-> ParentSeed(parent),
                             counted |-> IF subject.first THEN <<>>
                                         ELSE CountMinted(snap, epoch - 1).addresses,
                             candidates |-> DOMAIN CandidateTable(snap),
                             validators |-> StoredValidators(snap),
                             err |-> te.err, hx |-> te.hx,
                             table |-> DOMAIN CandidateTable(te.snap),
                             stored |-> StoredValidators(te.snap)]
             minted(snap) ==
                 elected(snap, tryElect(config, [Number |-> number], parent, snap,
                                        HeaderExtra(epoch, epochBlock, ZeroRoot)))
         IN minted(MintBlock(subject.snap, epoch, number, 1))
    /\ UNCHANGED <<node, subject>>

NextElect == TryElectCall

SpecElect == InitElect /\ [][NextElect]_vars

\* tryElect ran for the first block of epoch 2
ElectedEpoch ==
    outcome.kind = "elect" /\ outcome.number = outcome.epochBlock /\ outcome.number > 1

\* the validators whose mint count of epoch 1 is below minMint, in the order
\* of CountMinted
KickList ==
    LET config == subject.config
        minMint == ((config.Epoch \div config.Period) \div config.MaxValidatorsCount)
                     \div 2
    IN SelectSeq(outcome.counted, LAMBDA v : v.Weight < minMint)

SafeSize == (subject.config.MaxValidatorsCount * 2) \div 3 + 1

\* the first min(|kickList|, max(0, c - safeSize)) entries of the kick list
KickTargets ==
    LET over == Cardinality(outcome.candidates) - SafeSize
    IN SubSeq(KickList, 1, Min(Len(KickList), IF over < 0 THEN 0 ELSE over))

KickedExactly ==
    /\ ~outcome.err
    /\ outcome.hx.CurrentBlockKickOutCandidates
         = [i \in DOMAIN KickTargets |-> KickTargets[i].Address]
    /\ outcome.table = outcome.candidates \ {KickTargets[i].Address : i \in DOMAIN KickTargets}
    /\ Cardinality(outcome.table) >= Min(Cardinality(outcome.candidates), SafeSize)

C28_StoredValidatorsAreElected ==
    (outcome.kind = "elect" /\ ~outcome.err) =>
        IF outcome.number = outcome.epochBlock
        THEN LET elected == outcome.hx.CurrentEpochValidators
             IN /\ ~outcome.stored.err /\ outcome.stored.validators = elected
                /\ elected = RandCandidates(
                                 ApplyCandidates(newSnapshot, SortedSeq(outcome.table), 1, 0),
                                 outcome.seed, subject.config.MaxValidatorsCount).candidates
                /\ Len(elected) <= subject.config.MaxValidatorsCount
                /\ Cardinality(Range(elected)) = Len(elected)
                /\ Range(elected) \subseteq outcome.table
                /\ Range(elected) \cap Range(outcome.hx.CurrentBlockKickOutCandidates) = {}
        ELSE /\ outcome.stored = outcome.validators
             /\ outcome.hx.CurrentEpochValidators = <<>>

\* an epoch block that kicked a validator out and elected three others from
\* the four candidates left
C28_Witness ==
    /\ ElectedEpoch /\ ~outcome.err
    /\ Len(outcome.hx.CurrentBlockKickOutCandidates) = 1
    /\ Cardinality(outcome.table) = 4
    /\ Len(outcome.stored.validators) = 3
    /\ outcome.stored.validators # outcome.validators.validators

\* C29: tryElect completes without error when a validator on the kick list
\* has no candidate record any more.
C29_KickOutAbsentTolerated ==
    (ElectedEpoch
       /\ \E i \in DOMAIN KickTargets : KickTargets[i].Address \notin outcome.candidates)
      => ~outcome.err

\* the reward the schedule names for the block: that of the first entry, in
\* list order, with Number >= the block's number, or of the last entry
ScheduledReward ==
    LET rewards == subject.config.Rewards
        atOrAbove == {i \in DOMAIN rewards : rewards[i].Number >= subject.header.Number}
    IN IF rewards = <<>> THEN 0
       ELSE IF atOrAbove = {} THEN rewards[Len(rewards)].Reward
       ELSE rewards[CHOOSE i \in atOrAbove : \A j \in atOrAbove : i <= j].Reward

\* C30: accumulateRewards pays the Reward of the first schedule entry, in list
\* order, whose Number is at or above the block's number, or of the last
\* entry when every Number is below it; when that reward is zero or the
\* schedule is empty no balance changes.
C30_RewardLookup ==
    outcome.kind = "accumulateRewards" =>
        /\ outcome.blockReward = ScheduledReward
        /\ ScheduledReward > 0 => SumCredited(DOMAIN subject.bal) = ScheduledReward
        /\ ScheduledReward = 0 => outcome.bal = subject.bal

\* a block past both entries of a schedule that ends with reward 0, as the
\* main net's does: nothing is credited
C30_Witness ==
    /\ outcome.kind = "accumulateRewards"
    /\ Len(subject.config.Rewards) = 2
    /\ \A i \in 1..2 : subject.config.Rewards[i].Number < subject.header.Number
    /\ subject.config.Rewards[1].Reward > 0
    /\ subject.config.Rewards[2].Reward = 0
    /\ outcome.bal = subject.bal

\* ---- SpecRoot: operations on a loaded snapshot, Root, and Commit followed
\*      by loadSnapshot of the committed root
SnapshotOps ==
    {"SetValidators", "GetValidators", "BecomeCandidate", "CancelCandidate",
     "EnoughCandidates", "MintBlock", "CountMinted", "SetChainConfig"}

\* the tables an operation reaches with ensureTrie
OpTables(op) ==
    CASE op \in {"SetValidators", "GetValidators"} -> {"epoch"}
      [] op \in {"BecomeCandidate", "CancelCandidate", "EnoughCandidates"} -> {"candidate"}
      [] op = "MintBlock" -> {"mintCnt"}
      [] op = "CountMinted" -> {"epoch", "mintCnt"}
      [] op = "SetChainConfig" -> {"config"}

InitRoot ==
    /\ chain = <<>> /\ db = {} /\ balances = InitBalances
    /\ assembled = 0 /\ txCount = 0 /\ pending = NoBlock /\ last = NoVerify
    /\ outcome = Idle
    /\ subject = [kind |-> "root", snap |-> loadSnapshot(ZeroRoot), pinned |-> ZeroRoot,
                  touched |-> {}, ops |-> 0, loads |-> 0]

SnapshotOpCall ==
    /\ subject.kind = "root"
    /\ subject.ops < MaxSnapshotOps
    /\ \E op \in SnapshotOps, a \in 1..2 :
         LET snap == subject.snap
             after ==
                 CASE op = "SetValidators" -> SetValidators(snap, <<a>>)
                   [] op = "GetValidators" -> GetValidators(snap).snap
                   [] op = "BecomeCandidate" -> BecomeCandidate(snap, a, 1, 0).snap
                   [] op = "CancelCandidate" -> CancelCandidate(snap, a).snap
                   [] op = "EnoughCandidates" -> EnoughCandidates(snap, a).snap
                   [] op = "MintBlock" -> MintBlock(snap, 1, subject.ops + 1, a)
                   [] op = "CountMinted" -> CountMinted(snap, 1).snap
                   [] op = "SetChainConfig" -> SetChainConfig(snap, EpochConfig(a))
         IN subject' = [subject EXCEPT !.snap = after,
                                       !.touched = @ \cup OpTables(op),
                                       !.ops = @ + 1]
    /\ outcome' = Idle
    /\ UNCHANGED node

\* root, err := snap.Root()
TakeRootCall ==
    /\ subject.kind = "root"
    /\ outcome' = [kind |-> "root", root |-> SnapRoot(subject.snap)]
    /\ UNCHANGED <<node, subject>>

\* snap.Commit(root) with the root just taken, then loadSnapshot(db, root)
CommitAndLoadCall ==
    /\ subject.kind = "root"
    /\ outcome.kind = "root"
    /\ subject.loads < MaxLoads
    /\ db' = db \cup CommitWrites(subject.snap, outcome.root)
    /\ subject' = [subject EXCEPT !.snap = loadSnapshot(outcome.root),
                                  !.pinned = outcome.root, !.touched = {},
                                  !.loads = @ + 1]
    /\ outcome' = Idle
    /\ UNCHANGED <<chain, balances, assembled, txCount, pending, last>>

NextRoot ==
    \/ SnapshotOpCall
    \/ TakeRootCall
    \/ CommitAndLoadCall

SpecRoot == InitRoot /\ [][NextRoot]_vars

\* C31: Root of a snapshot loaded from R keeps, for every table no operation
\* reached, the hash R has for it; with no operation at all it returns R.
C31_RootKeepsUntouched ==
    (subject.kind = "root" /\ outcome.kind = "root") =>
        /\ \A t \in Tables \ subject.touched :
             RootField(outcome.root, t) = RootField(subject.pinned, t)
        /\ subject.touched = {} => outcome.root = subject.pinned

\* a snapshot loaded from a committed root with validators and a candidate,
\* on which only MintBlock ran: the epoch and candidate hashes are R's
C31_Witness ==
    /\ subject.kind = "root" /\ outcome.kind = "root"
    /\ subject.loads = 1 /\ subject.touched = {"mintCnt"}
    /\ ~subject.pinned.EpochHash.z /\ ~subject.pinned.CandidateHash.z
    /\ subject.pinned.CandidateHash.c # EmptyFcn
    /\ outcome.root # subject.pinned
    /\ outcome.root.EpochHash = subject.pinned.EpochHash
    /\ outcome.root.CandidateHash = subject.pinned.CandidateHash


\* ============================================================ Authorize
\* ---- SpecAuthorize: Authorize calls running concurrently with one Seal.
\*      e.lock is a sync.RWMutex: writer is the Authorize call that holds it
\*      (0 for none), readers the number of read locks.  A signFn stands for
\*      the wallet it signs with, named by the address whose key it holds
\*      (0 for the nil signFn of a fresh engine); signerBy and signFnBy
\*      record which Authorize call wrote each field (0 for construction).
AuthorizeCalls == 1..MaxAuthorize

\* e.lock.Lock() can proceed
CanLock(e) == e.writer = 0 /\ e.readers = 0

CanRLockAlways(e) == TRUE

\* e.lock.RLock() can proceed
CanRLock(e) == e.writer = 0

InitAuthorize ==
    /\ chain = <<>> /\ db = {} /\ balances = InitBalances
    /\ assembled = 0 /\ txCount = 0 /\ pending = NoBlock /\ last = NoVerify
    /\ outcome = Idle
    /\ \E time \in Times, coinbase \in Addr :
         subject = [kind |-> "authorize",
                    header |-> [Number |-> 1, Time |-> time, Coinbase |-> coinbase,
                                Signer |-> NoSigner, Form |-> "ok"],
                    signer |-> ZeroAddr, signFn |-> 0,
                    signerBy |-> 0, signFnBy |-> 0,
                    writer |-> 0, readers |-> 0,
                    calls |-> [i \in AuthorizeCalls |-> [pc |-> "idle", signer |-> ZeroAddr]],
                    seal |-> [pc |-> "idle", ret |-> "none",
                              signer |-> ZeroAddr, signFn |-> 0,
                              signerBy |-> 0, signFnBy |-> 0],
                    clock |-> 0,
                    results |-> <<>>]

\* Authorize(signer, signFn): e.lock.Lock()
AuthorizeLock ==
    /\ subject.kind = "authorize"
    /\ \E i \in AuthorizeCalls, a \in Addr :
         /\ subject.calls[i].pc = "idle"
         /\ CanLock(subject)
         /\ subject' = [subject EXCEPT !.writer = i,
                                       !.calls[i] = [pc |-> "locked", signer |-> a]]
    /\ UNCHANGED <<node, outcome>>

\* e.signer = signer
AuthorizeSetSigner ==
    /\ subject.kind = "authorize"
    /\ \E i \in AuthorizeCalls :
         /\ subject.calls[i].pc = "locked"
         /\ subject' = [subject EXCEPT !.signer = subject.calls[i].signer,
                                       !.signerBy = i,
                                       !.calls[i].pc = "wroteSigner"]
    /\ UNCHANGED <<node, outcome>>

\* e.signFn = signFn
AuthorizeSetSignFn ==
    /\ subject.kind = "authorize"
    /\ \E i \in AuthorizeCalls :
         /\ subject.calls[i].pc = "wroteSigner"
         /\ subject' = [subject EXCEPT !.signFn = subject.calls[i].signer,
                                       !.signFnBy = i,
                                       !.calls[i].pc = "wroteSignFn"]
    /\ UNCHANGED <<node, outcome>>

\* the deferred e.lock.Unlock()
AuthorizeUnlock ==
    /\ subject.kind = "authorize"
    /\ \E i \in AuthorizeCalls :
         /\ subject.calls[i].pc = "wroteSignFn"
         /\ subject' = [subject EXCEPT !.writer = 0, !.calls[i].pc = "done"]
    /\ UNCHANGED <<node, outcome>>

\* Seal up to the in-turn check of header.Coinbase
SealCheck ==
    /\ subject.kind = "authorize" /\ subject.seal.pc = "idle"
    /\ subject' =
         LET ret == SealResult(subject.header, FALSE)
         IN [subject EXCEPT !.seal.ret = IF ret = "nil" THEN "none" ELSE ret,
                            !.seal.pc = IF ret = "nil" THEN "checked" ELSE "returned"]
    /\ UNCHANGED <<node, outcome>>

\* e.lock.RLock()
SealRLock ==
    /\ subject.kind = "authorize" /\ subject.seal.pc = "checked"
    /\ CanRLock(subject)
    /\ subject' = [subject EXCEPT !.readers = @ + 1, !.seal.pc = "rlocked"]
    /\ UNCHANGED <<node, outcome>>

\* signer, signFn := e.signer, e.signFn (the read of e.signer)
SealReadSigner ==
    /\ subject.kind = "authorize" /\ subject.seal.pc = "rlocked"
    /\ subject' = [subject EXCEPT !.seal.signer = subject.signer,
                                  !.seal.signerBy = subject.signerBy,
                                  !.seal.pc = "readSigner"]
    /\ UNCHANGED <<node, outcome>>

\* signer, signFn := e.signer, e.signFn (the read of e.signFn)
SealReadSignFn ==
    /\ subject.kind = "authorize" /\ subject.seal.pc = "readSigner"
    /\ subject' = [subject EXCEPT !.seal.signFn = subject.signFn,
                                  !.seal.signFnBy = subject.signFnBy,
                                  !.seal.pc = "readSignFn"]
    /\ UNCHANGED <<node, outcome>>

\* e.lock.RUnlock()
SealRUnlock ==
    /\ subject.kind = "authorize" /\ subject.seal.pc = "readSignFn"
    /\ subject' = [subject EXCEPT !.readers = @ - 1, !.seal.pc = "unlocked"]
    /\ UNCHANGED <<node, outcome>>

\* sigHash, err := signFn(accounts.Account{Address: signer}, ...): a nil
\* signFn panics, a wallet signs only for an account it holds and may fail;
\* the signature copied into header.Extra recovers to signer.  Then the
\* goroutine is started and Seal returns nil.
SealSign ==
    /\ subject.kind = "authorize" /\ subject.seal.pc = "unlocked"
    /\ \E signFails \in BOOLEAN :
         subject' =
           IF subject.seal.signFn = 0
           THEN [subject EXCEPT !.seal.pc = "panicked"]
           ELSE IF signFails \/ subject.seal.signFn # subject.seal.signer
           THEN [subject EXCEPT !.seal.pc = "returned", !.seal.ret = "errSign"]
           ELSE [subject EXCEPT !.header.Signer = subject.seal.signer,
                                !.seal.pc = "waiting", !.seal.ret = "nil"]
    /\ UNCHANGED <<node, outcome>>

\* time passes
ClockTick ==
    /\ subject.kind = "authorize" /\ subject.clock < MaxClock
    /\ subject' = [subject EXCEPT !.clock = @ + 1]
    /\ UNCHANGED <<node, outcome>>

\* the goroutine: time.After(delay) has fired and the block is sent on results
SealSend ==
    /\ subject.kind = "authorize" /\ subject.seal.pc = "waiting"
    /\ subject.clock >= subject.header.Time
    /\ subject' = [subject EXCEPT !.results = Append(@, subject.header),
                                  !.seal.pc = "done"]
    /\ UNCHANGED <<node, outcome>>

NextAuthorize ==
    \/ AuthorizeLock
    \/ AuthorizeSetSigner
    \/ AuthorizeSetSignFn
    \/ AuthorizeUnlock
    \/ SealCheck
    \/ SealRLock
    \/ SealReadSigner
    \/ SealReadSignFn
    \/ SealRUnlock
    \/ SealSign
    \/ ClockTick
    \/ SealSend

SpecAuthorize == InitAuthorize /\ [][NextAuthorize]_vars

\* Seal has read both fields
SealHasPair ==
    subject.seal.pc \in {"readSignFn", "unlocked", "waiting", "done", "panicked"}
    \/ (subject.seal.pc = "returned" /\ subject.seal.ret = "errSign")

\* C32: the signer and the signFn Seal signs with were written by the same
\* Authorize call (or are both the fields of the fresh engine), and Seal
\* holds no read lock once it has read them, so that while the seal waits for
\* header.Time an Authorize call can take the lock whenever no other
\* Authorize holds it.
C32_SealReadsOnePair ==
    subject.kind = "authorize" =>
        /\ SealHasPair => subject.seal.signerBy = subject.seal.signFnBy
        /\ subject.seal.pc \in {"unlocked", "waiting", "done", "returned", "panicked"}
             => subject.readers = 0
        /\ (subject.seal.pc = "waiting" /\ subject.writer = 0) => CanLock(subject)

\* the seal signed with the pair of the first Authorize call and is waiting
\* while the second call holds the lock between its two writes
C32_Witness ==
    /\ subject.kind = "authorize"
    /\ subject.seal.pc = "waiting"
    /\ subject.seal.signerBy = 1 /\ subject.seal.signFnBy = 1
    /\ subject.calls[2].pc = "wroteSigner"
    /\ subject.signer # subject.signFn
    /\ subject.clock < subject.header.Time

\* C36: every block sent on results is accepted by verifySeal on the same
\* parent.
C36_SealedBlocksVerify ==
    subject.kind = "authorize" =>
        \A k \in 1..Len(subject.results) :
            verifySeal(chainConfig(Genesis).config, subject.results[k], Genesis) = "ok"


\* ========================================================= senate: election
\* The senate Snapshot with its epoch and mintCnt tries next to the candidate,
\* delegate and vote tries: epochTrie holds the validator list once one was
\* set, mintCntTrie maps <<epoch, number>> to the validator of that block.
senateElectSnapshot(candidates, validators, minted) ==
    [candidateTrie |-> candidates,
     delegateTrie |-> {<<c, c>> : c \in candidates},
     voteTrie |-> [c \in candidates |-> c],
     epochTrie |-> [has |-> TRUE, validators |-> validators],
     mintCntTrie |-> minted]

\* the snapshot of a chain without blocks: every trie is empty
senateEmptySnapshot ==
    [candidateTrie |-> {}, delegateTrie |-> {}, voteTrie |-> EmptyFcn,
     epochTrie |-> [has |-> FALSE, validators |-> <<>>],
     mintCntTrie |-> EmptyFcn]

\* senate Snapshot.EnoughCandidates: "if iterCandidate.Next()" runs its body
\* at most once
senateEnoughCandidates(snap, n) ==
    IF n <= 0 THEN [count |-> 0, ok |-> TRUE]
    ELSE IF snap.candidateTrie # {}
         THEN (IF 1 >= n THEN [count |-> 1, ok |-> TRUE]
               ELSE [count |-> 1, ok |-> FALSE])
    ELSE [count |-> 0, ok |-> FALSE]

\* senate Snapshot.GetValidators
senateGetValidators(snap) ==
    IF snap.epochTrie.has
    THEN [err |-> FALSE, validators |-> snap.epochTrie.validators]
    ELSE [err |-> TRUE, validators |-> <<>>]

\* senate Snapshot.SetValidators
senateSetValidators(snap, validators) ==
    [snap EXCEPT !.epochTrie = [has |-> TRUE, validators |-> validators]]

\* senate Snapshot.CountMinted
senateCountMinted(snap, epoch) ==
    LET mapper(v) ==
            Cardinality({k \in DOMAIN snap.mintCntTrie :
                           k[1] = epoch /\ snap.mintCntTrie[k] = v})
        weighted(validators) ==
            [idx \in DOMAIN validators |->
               [Address |-> validators[idx], Weight |-> mapper(validators[idx])]]
        count(gv) ==
            IF gv.err THEN [err |-> TRUE, addresses |-> <<>>]
            ELSE [err |-> FALSE, addresses |-> SortReverse(weighted(gv.validators))]
    IN count(senateGetValidators(snap))

\* senate Snapshot.MintBlock
senateMintBlock(snap, epoch, number, validator) ==
    [snap EXCEPT !.mintCntTrie = FcnPut(@, <<epoch, number>>, validator)]

\* senate Snapshot.RandCandidates
senateRandCandidates(snap, seed, n) ==
    LET all == SortedSeq(snap.candidateTrie)
        cut(shuffled) == IF Len(shuffled) > n THEN SubSeq(shuffled, 1, n)
                         ELSE shuffled
    IN IF n <= 0 \/ all = <<>> THEN <<>>
       ELSE cut(Shuffle(all, seed, Len(all), 0))

\* the first block: every genesis validator becomes a candidate and votes
\* for itself
RECURSIVE senateGenesisCandidates(_, _)
senateGenesisCandidates(st, validators) ==
    IF st.err \/ validators = <<>> THEN st
    ELSE LET v == Head(validators)
             bc == senateBecomeCandidate(st.snap, v)
             dg == Delegate(bc.snap, v, v)
         IN IF dg.err THEN [st EXCEPT !.err = TRUE]
            ELSE senateGenesisCandidates(
                   [st EXCEPT
                      !.snap = dg.snap,
                      !.hx.CurrentBlockDelegates =
                          Append(@, [Delegator |-> v, Candidate |-> v]),
                      !.hx.CurrentBlockCandidates = Append(@, v)],
                   Tail(validators))

\* the kick-out loop of senate tryElect; early records its "return nil"
RECURSIVE senateKickOut(_, _, _, _)
senateKickOut(st, list, candidateCount, safeSize) ==
    IF st.err \/ list = <<>> THEN st
    ELSE IF candidateCount <= safeSize THEN [st EXCEPT !.early = TRUE]
    ELSE LET ko == KickOutCandidate(st.snap, Head(list).Address)
         IN IF ko.err THEN [st EXCEPT !.err = TRUE]
            ELSE senateKickOut(
                   [st EXCEPT !.snap = ko.snap,
                              !.hx.CurrentBlockKickOutCandidates =
                                  Append(@, Head(list).Address)],
                   Tail(list), candidateCount - 1, safeSize)

\* Ensure each element of a Delegate slice are not the same
RECURSIVE delegatesDistinct(_)
delegatesDistinct(slice) ==
    IF Len(slice) <= 1 THEN slice
    ELSE LET front == delegatesDistinct(SubSeq(slice, 1, Len(slice) - 1))
             final == slice[Len(slice)]
         IN IF final \in Range(front) THEN front ELSE Append(front, final)

\* Senate.tryElect; seed is the seed taken from header.ParentHash
senateTryElect(config, header, seed, snap, headerExtra) ==
    LET minMint == ((config.Epoch \div config.Period) \div config.MaxValidatorsCount) \div 2
        safeSize == (config.MaxValidatorsCount * 2) \div 3 + 1
        start == [snap |-> snap, hx |-> headerExtra, err |-> FALSE, early |-> FALSE]
        genesis(g) ==
            [g EXCEPT !.hx.CurrentBlockDelegates = delegatesDistinct(@),
                      !.hx.CurrentBlockCandidates = addressesDistinct(@)]
        inactive(needKickOutValidators) ==
            IF Len(needKickOutValidators) = 0 THEN start
            ELSE senateKickOut(
                   start, needKickOutValidators,
                   senateEnoughCandidates(
                       snap, safeSize + Len(needKickOutValidators)).count,
                   safeSize)
        minted(cm) ==
            IF cm.err THEN [start EXCEPT !.err = TRUE]
            ELSE inactive(SelectSeq(cm.addresses, LAMBDA v : v.Weight < minMint))
        validators(st, candidates) ==
            [st EXCEPT
               !.snap = senateSetValidators(
                            @, st.hx.CurrentEpochValidators \o candidates),
               !.hx.CurrentEpochValidators = @ \o candidates]
        elect(st) ==
            IF st.err \/ st.early THEN st
            ELSE validators(st, senateRandCandidates(st.snap, seed,
                                                     config.MaxValidatorsCount))
    IN IF header.Time # headerExtra.EpochTime THEN start
       ELSE elect(IF header.Number <= 1
                  THEN genesis(senateGenesisCandidates(start, config.Validators))
                  ELSE minted(senateCountMinted(snap, headerExtra.Epoch - 1)))

\* the three replay loops of senate Snapshot.apply
RECURSIVE senateApplyCandidates(_, _)
senateApplyCandidates(st, candidates) ==
    IF st.err \/ candidates = <<>> THEN st
    ELSE LET r == senateBecomeCandidate(st.snap, Head(candidates))
         IN senateApplyCandidates([snap |-> r.snap, err |-> r.err], Tail(candidates))

RECURSIVE senateApplyDelegates(_, _)
senateApplyDelegates(st, delegates) ==
    IF st.err \/ delegates = <<>> THEN st
    ELSE LET r == Delegate(st.snap, Head(delegates).Delegator,
                           Head(delegates).Candidate)
         IN senateApplyDelegates([snap |-> r.snap, err |-> r.err], Tail(delegates))

RECURSIVE senateApplyKickOuts(_, _)
senateApplyKickOuts(st, candidates) ==
    IF st.err \/ candidates = <<>> THEN st
    ELSE LET r == KickOutCandidate(st.snap, Head(candidates))
         IN senateApplyKickOuts([snap |-> r.snap, err |-> r.err], Tail(candidates))

\* senate Snapshot.apply (a block without proposals, declares or a new
\* chain config)
senateApply(snap, header, headerExtra) ==
    LET mint(st) ==
            IF st.err THEN st
            ELSE [st EXCEPT !.snap = senateMintBlock(@, headerExtra.Epoch,
                                                     header.Number, header.Coinbase)]
        epoch(st) ==
            IF st.err \/ header.Time # headerExtra.EpochTime THEN st
            ELSE [st EXCEPT !.snap = senateSetValidators(
                                         @, headerExtra.CurrentEpochValidators)]
    IN mint(epoch(senateApplyKickOuts(
                    senateApplyDelegates(
                      senateApplyCandidates([snap |-> snap, err |-> FALSE],
                                            headerExtra.CurrentBlockCandidates),
                      headerExtra.CurrentBlockDelegates),
                    headerExtra.CurrentBlockKickOutCandidates)))

SenateConfigs ==
    {[Config EXCEPT !.Epoch = 6, !.MaxValidatorsCount = 1],
     [Config EXCEPT !.Epoch = 6, !.MaxValidatorsCount = 2],
     [Config EXCEPT !.Epoch = 6, !.MaxValidatorsCount = 3]}

\* the first block of epoch 2 (or a block inside epoch 1 when it is not the
\* epoch's first): blocks 2..1+MaxSenateMinted were minted in epoch 1
SenateEpochNumber == MaxSenateMinted + 2

\* ---- SpecSenateElect: EnoughCandidates and tryElect on a snapshot with any
\*      candidates, validators and mint counts
SenateElectSubject(snap, config, seed, first, coinbase) ==
    [kind |-> "senateElect",
     snap |-> snap,
     config |-> config,
     seed |-> seed,
     header |-> [Number |-> IF first THEN 1 ELSE SenateEpochNumber,
                 Time |-> SenateEpochNumber, Coinbase |-> coinbase],
     hx |-> [Epoch |-> IF first THEN 1 ELSE 2,
             EpochTime |-> SenateEpochNumber,
             CurrentBlockCandidates |-> <<>>,
             CurrentBlockDelegates |-> <<>>,
             CurrentBlockKickOutCandidates |-> <<>>,
             CurrentEpochValidators |-> <<>>]]

\* block 1 on the new snapshot of the genesis block, or the first block of
\* epoch 2 on a snapshot with candidates, validators and the mints of epoch 1
InitSenateElect ==
    /\ chain = <<>> /\ db = {} /\ balances = InitBalances
    /\ assembled = 0 /\ txCount = 0 /\ pending = NoBlock /\ last = NoVerify
    /\ outcome = Idle
    /\ \E config \in SenateConfigs, seed \in 0..1 :
         \/ \E coinbase \in Range(config.Validators) :
              subject = SenateElectSubject(
                          senateEmptySnapshot,
                          config, seed, TRUE, coinbase)
         \/ \E candidates \in SUBSET Addr,
               validators \in DistinctLists(Addr, 2) \ {<<>>},
               minted \in [{<<1, n>> : n \in 2..(MaxSenateMinted + 1)} -> Addr] :
              subject = SenateElectSubject(
                          senateElectSnapshot(candidates, validators, minted),
                          config, seed, FALSE, validators[1])

\* snap.EnoughCandidates(n)
SenateEnoughCandidatesCall ==
    /\ subject.kind = "senateElect" /\ outcome = Idle
    /\ \E n \in 1..MaxEnough :
         outcome' = [kind |-> "enough", n |-> n,
                     result |-> senateEnoughCandidates(subject.snap, n)]
    /\ UNCHANGED <<node, subject>>

\* the producer runs tryElect on the parent's snapshot; the verifier applies
\* the produced header extra to the same snapshot
SenateTryElectCall ==
    /\ subject.kind = "senateElect" /\ outcome = Idle
    /\ outcome' =
         LET te == senateTryElect(subject.config, subject.header, subject.seed,
                                  subject.snap, subject.hx)
         IN [kind |-> "senateTryElect",
             err |-> te.err, early |-> te.early, hx |-> te.hx,
             picked |-> senateRandCandidates(te.snap, subject.seed,
                                             subject.config.MaxValidatorsCount),
             produced |-> te.snap,
             applied |-> senateApply(subject.snap, subject.header, te.hx)]
    /\ UNCHANGED <<node, subject>>

NextSenateElect ==
    \/ SenateEnoughCandidatesCall
    \/ SenateTryElectCall

SpecSenateElect == InitSenateElect /\ [][NextSenateElect]_vars

\* C33: EnoughCandidates(n) for n > 0 returns (min(|C|, n), |C| >= n).
C33_EnoughCandidatesCounts ==
    outcome.kind = "enough" =>
        LET c == Cardinality(subject.snap.candidateTrie)
        IN /\ outcome.result.count = Min(c, outcome.n)
           /\ outcome.result.ok = (c >= outcome.n)

\* C34: when the kick-out loop of tryElect stops because the candidate count
\* is not above safeSize, tryElect returns no error, CurrentEpochValidators
\* is the shuffle pick, and the producer's epoch table is the one apply
\* writes for the block.
C34_ElectionProceedsAfterStop ==
    (outcome.kind = "senateTryElect" /\ outcome.early) =>
        /\ ~outcome.err
        /\ outcome.hx.CurrentEpochValidators = outcome.picked
        /\ ~outcome.applied.err
        /\ outcome.produced.epochTrie = outcome.applied.snap.epochTrie


\* ================================================ senate: delegation replay
\* the delegate and become-candidate events NewTransaction decodes
SenateEvents ==
    {[type |-> "delegate", Delegator |-> d, Candidate |-> c] : d \in Addr, c \in Addr}
    \cup {[type |-> "becomeCandidate", Delegator |-> c, Candidate |-> c] : c \in Addr}

\* SenateConfig.MinDelegatorBalance
MinDelegatorBalance == 2

\* the loop of senate processTransactions over the events of the block
RECURSIVE senateProcessEvents(_, _, _, _)
senateProcessEvents(config, bal, st, txs) ==
    IF txs = <<>> THEN st
    ELSE LET event == Head(txs)
             dg == Delegate(st.snap, event.Delegator, event.Candidate)
             bc == senateBecomeCandidate(st.snap, event.Candidate)
             next ==
               IF event.type = "delegate"
               THEN (IF bal[event.Delegator] < MinDelegatorBalance THEN st
                     ELSE IF dg.err THEN st
                     ELSE [snap |-> dg.snap,
                           hx |-> [st.hx EXCEPT !.CurrentBlockDelegates =
                                     Append(@, [Delegator |-> event.Delegator,
                                                Candidate |-> event.Candidate])]])
               ELSE (IF bal[event.Candidate] < config.MinCandidateBalance THEN st
                     ELSE IF bc.err THEN st
                     ELSE [snap |-> bc.snap,
                           hx |-> [st.hx EXCEPT !.CurrentBlockCandidates =
                                     Append(@, event.Candidate)]])
         IN senateProcessEvents(config, bal, next, Tail(txs))

\* Senate.processTransactions on a block after the first
senateProcessTransactions(config, bal, snap, headerExtra, txs) ==
    LET distinct(st) ==
            [st EXCEPT !.hx.CurrentBlockDelegates = delegatesDistinct(@),
                       !.hx.CurrentBlockCandidates = addressesDistinct(@)]
    IN distinct(senateProcessEvents(config, bal,
                                    [snap |-> snap, hx |-> headerExtra], txs))

\* ---- SpecSenateReplay: the producer processes the events of one block on
\*      a snapshot with any candidates, the verifier replays the header extra
InitSenateReplay ==
    /\ chain = <<>> /\ db = {} /\ balances = InitBalances
    /\ assembled = 0 /\ txCount = 0 /\ pending = NoBlock /\ last = NoVerify
    /\ outcome = Idle
    /\ \E candidates \in SUBSET Addr :
         subject = [kind |-> "senateReplay",
                    snap |-> senateElectSnapshot(candidates, <<1>>, EmptyFcn),
                    header |-> [Number |-> 2, Time |-> 2, Coinbase |-> 1],
                    hx |-> [Epoch |-> 1, EpochTime |-> 1,
                            CurrentBlockCandidates |-> <<>>,
                            CurrentBlockDelegates |-> <<>>,
                            CurrentBlockKickOutCandidates |-> <<>>,
                            CurrentEpochValidators |-> <<>>]]

SenateProcessTransactionsCall ==
    /\ subject.kind = "senateReplay" /\ outcome = Idle
    /\ \E txs \in Seqs(SenateEvents, MaxSenateTxs) :
         outcome' =
           LET pt == senateProcessTransactions(Config, balances, subject.snap,
                                               subject.hx, txs)
           IN [kind |-> "senateReplay", txs |-> txs, hx |-> pt.hx,
               produced |-> pt.snap,
               applied |-> senateApply(subject.snap, subject.header, pt.hx)]
    /\ UNCHANGED <<node, subject>>

NextSenateReplay == SenateProcessTransactionsCall

SpecSenateReplay == InitSenateReplay /\ [][NextSenateReplay]_vars

\* C40: replaying the deduplicated CurrentBlockDelegates list with apply
\* leaves the vote table and the delegate table equal to what the producer's
\* snapshot holds after processing the transactions in block order.
C40_DelegateReplayMatches ==
    outcome.kind = "senateReplay" =>
        /\ ~outcome.applied.err
        /\ outcome.applied.snap.voteTrie = outcome.produced.voteTrie
        /\ outcome.applied.snap.delegateTrie = outcome.produced.delegateTrie


\* ==================================================== security accounting
\* the Security recorded for a in a candidate table, 0 when a has no record
SecurityOf(table, a) == IF a \in DOMAIN table THEN table[a].Security ELSE 0

RECURSIVE SecuritySum(_, _)
SecuritySum(table, S) ==
    IF S = {} THEN 0
    ELSE LET a == CHOOSE x \in S : TRUE
         IN SecurityOf(table, a) + SecuritySum(table, S \ {a})

RECURSIVE BalanceSum(_, _)
BalanceSum(bal, S) ==
    IF S = {} THEN 0
    ELSE LET a == CHOOSE x \in S : TRUE IN bal[a] + BalanceSum(bal, S \ {a})

\* the candidate table the block leaves, after the election
ElectedTable == subject.parent.Root.CandidateHash.c

\* C37: over the transactions of a block every address is debited what its
\* candidate record gained in Security (a registration is paid once, a
\* quit refunds what was recorded); in particular an address that is a
\* candidate and does not quit in the block is debited nothing.
C37_DebitEqualsRecordedSecurity ==
    Finalized =>
        \A a \in Addr :
            /\ outcome.before.bal[a] - outcome.processed.bal[a]
                 = SecurityOf(outcome.processed.table, a)
                     - SecurityOf(outcome.before.table, a)
            /\ (a \in DOMAIN outcome.before.table
                /\ <<"candidateQuit", a>> \notin Range(outcome.txs))
                  => outcome.processed.bal[a] = outcome.before.bal[a]

\* C38: over a whole block (transactions and election) the change of the sum
\* of the recorded Security equals what the block debited minus what it
\* credited back, so that the recorded sum always equals the total debited
\* minus the total refunded.
C38_SecurityConserved ==
    (Finalized /\ ~outcome.err) =>
        SecuritySum(ElectedTable, Addr) - SecuritySum(outcome.before.table, Addr)
          = BalanceSum(outcome.before.bal, Addr) - BalanceSum(subject.bal, Addr)

\* the same for the blocks in which no candidate sent become-candidate again
C38_KickOutConserved ==
    (Finalized /\ ~outcome.err
     /\ \A a \in Addr :
          outcome.before.bal[a] - outcome.processed.bal[a]
            = SecurityOf(outcome.processed.table, a)
                - SecurityOf(outcome.before.table, a)) =>
        SecuritySum(ElectedTable, Addr) - SecuritySum(outcome.before.table, Addr)
          = BalanceSum(outcome.before.bal, Addr) - BalanceSum(subject.bal, Addr)


\* ====================================================== round-robin slots
\* ---- SpecSlots: inTurn asked slot after slot, each slot one Period after
\*      the one before (the header.Time Prepare gives the next block), for a
\*      list of distinct validators and a first slot not before
\*      GenesisTimestamp
InitSlots ==
    /\ chain = <<>> /\ db = {} /\ balances = InitBalances
    /\ assembled = 0 /\ txCount = 0 /\ pending = NoBlock /\ last = NoVerify
    /\ outcome = Idle
    /\ \E validators \in DistinctLists(Addr, MaxValidators) \ {<<>>},
          g \in GenesisTimestamps, p \in Periods, time \in Times,
          kind \in {"genesis", "block"} :
         /\ time >= g
         /\ subject = [kind |-> "slots",
                       config |-> [Config EXCEPT !.GenesisTimestamp = g, !.Period = p,
                                                !.Validators =
                                                   IF kind = "genesis" THEN validators
                                                   ELSE Config.Validators],
                       lastBlockHeader |-> TurnParent(kind, validators),
                       validators |-> validators,
                       time |-> time,
                       turns |-> <<>>]

\* inTurn is asked for every signer at the slot's time; the next slot is one
\* Period later
SlotCall ==
    /\ subject.kind = "slots"
    /\ Len(subject.turns) < MaxSlots
    /\ subject' = [subject EXCEPT
                     !.turns = Append(@, {a \in Addr :
                                  inTurn(subject.config, subject.lastBlockHeader,
                                         subject.time, a)}),
                     !.time = @ + subject.config.Period]
    /\ UNCHANGED <<node, outcome>>

NextSlots == SlotCall

SpecSlots == InitSlots /\ [][NextSlots]_vars

\* C39: at every slot exactly one validator is in-turn; when validators[i] is
\* in-turn at a slot, the validator after it in the list (the first after the
\* last) is in-turn one Period later; over any V consecutive slots every
\* validator is in-turn exactly once.
C39_RoundRobinSlots ==
    subject.kind = "slots" =>
        LET validators == subject.validators
            V == Len(validators)
            turns == subject.turns
        IN /\ \A k \in DOMAIN turns : \E i \in 1..V : turns[k] = {validators[i]}
           /\ \A k \in 1..(Len(turns) - 1), i \in 1..V :
                turns[k] = {validators[i]} => turns[k + 1] = {validators[(i % V) + 1]}
           /\ \A start \in 1..(Len(turns) - V + 1), v \in Range(validators) :
                Cardinality({k \in start..(start + V - 1) : v \in turns[k]}) = 1

\* three validators, slots two seconds apart starting off the genesis
\* timestamp and not at the head of the list, wrapping round to the first
C39_Witness ==
    /\ subject.kind = "slots"
    /\ Len(subject.validators) = 3
    /\ subject.config.Period = 2
    /\ subject.config.GenesisTimestamp = 1
    /\ Len(subject.turns) = 4
    /\ subject.turns[1] = {subject.validators[2]}
    /\ subject.turns[2] = {subject.validators[3]}
    /\ subject.turns[3] = {subject.validators[1]}
    /\ subject.turns[4] = subject.turns[1]


\* ===================================================== minting and sealing
\* C35: for every block of the chain (every block verifyHeader accepted) the
\* address credited in the mint table, header.Coinbase, is the recovered
\* signer of the block, so the mint entries of a validator are the blocks it
\* sealed.
C35_MintCreditsSigner ==
    \A i \in DOMAIN chain :
        /\ chain[i].Coinbase = chain[i].Signer
        /\ Tip.Root.MintCntHash.c[<<chain[i].Epoch, i>>] = chain[i].Signer

====
